---- MODULE Spec2Model ----
(***************************************************************************)
(* x402 over Solana: the Express payment middleware, the facilitator's     *)
(* transaction introspector (verify), the facilitator's settle engine and  *)
(* the helpers of the protocol: header codec, route matching, price        *)
(* conversion, the client's requirement selector and fetch wrapper.        *)
(*                                                                         *)
(*   Spec        the middleware serving one request (paymentMiddleware)    *)
(*   VerifySpec  the introspector applied to bounded transactions          *)
(*   SettleSpec  concurrent settle calls against one chain                 *)
(*   TimedSettleSpec  one settle call with the time of its waits measured  *)
(*   HelperSpec  the helpers, each called on bounded arguments             *)
(***************************************************************************)
EXTENDS Integers, Sequences, FiniteSets, TLC

VARIABLES
  req,          \* the incoming request: route match, route config, X-PAYMENT header
  handler,      \* the downstream route handler registered behind the middleware
  mwpc,         \* position of paymentMiddleware in its async body
  hpc,          \* position of the downstream handler
  res,          \* the Express response object
  verifyResult, \* what the facilitator's verify answered for this request
  settleResult, \* what the facilitator's settle answered for this request
  vin,          \* introspector input: payload, requirements, account existence;
                \* in HelperSpec the helper called (fn) and its arguments
  vout,         \* verify's answer: <<>> until it ran, then <<VerifyResponse>>;
                \* in HelperSpec what the helper returned
  calls,        \* settle engine: one record per settle call
  chain         \* the Solana cluster as seen through RPC

mwVars == <<req, handler, mwpc, hpc, res, verifyResult, settleResult>>
vfVars == <<vin, vout>>
stVars == <<calls, chain>>
vars == <<req, handler, mwpc, hpc, res, verifyResult, settleResult, vin, vout, calls, chain>>

(***************************************************************************)
(* Part 1.  The Express middleware (lib/x402-express/index.ts)             *)
(***************************************************************************)

\* Status codes a handler may answer with; 399 and 400 sit on the boundary
\* tested by the middleware.
Statuses == {200, 399, 400, 503}

SettleThreshold == 400

PaymentRequiredStatus == 402

Null == "null"

\* res.end() called with no payload
NoChunk == "no_chunk"

HandlerChunks == {"handler_body", "handler_second_body", "handler_stream_chunk"}

Networks == {"solana-devnet", "solana"}

\* The X-PAYMENT header values: absent, not decodable as base64 JSON, or the
\* base64 JSON of a payload with the given scheme and network.
Headers ==
  {[kind |-> "none", scheme |-> "exact", network |-> "solana-devnet"],
   [kind |-> "garbage", scheme |-> "exact", network |-> "solana-devnet"]}
  \cup [kind : {"payload"}, scheme : {"exact", "other"},
        network : Networks \cup {"unknown-net"}]

Requests ==
  [matched : BOOLEAN,
   network : {"solana-devnet", "unsupported-net"},
   feePayerKnown : BOOLEAN,
   priceValid : BOOLEAN,
   browser : BOOLEAN,
   header : Headers]

\* A handler answers either with res.status(s).json(body), or with that call
\* followed by a second res.status(s).json(other), as a handler does that
\* lacks a return after its first answer, or by streaming: res.status(s),
\* res.write(chunk), res.end().  It does so either before returning to its
\* caller or after awaiting something.
Handlers ==
  [style : {"json", "json_twice", "stream"}, async : BOOLEAN, status : Statuses]

InitRes ==
  [statusCode |-> 200, headersSent |-> FALSE, finished |-> FALSE,
   sentStatus |-> 0, wire |-> <<>>, xPaymentResponse |-> Null,
   endHooked |-> FALSE, endArgs |-> Null, realEnds |-> 0]

\* http.ServerResponse.write: flushes the header block and the chunk
OriginalWrite(r, chunk) ==
  IF r.finished THEN r
  ELSE [r EXCEPT !.headersSent = TRUE,
                 !.sentStatus = IF r.headersSent THEN @ ELSE r.statusCode,
                 !.wire = Append(@, chunk)]

\* http.ServerResponse.end, bound as originalEnd
OriginalEnd(r, chunk) ==
  LET r1 == [r EXCEPT !.realEnds = @ + 1] IN
  IF r.finished THEN r1
  ELSE [r1 EXCEPT !.headersSent = TRUE,
                  !.finished = TRUE,
                  !.sentStatus = IF r.headersSent THEN @ ELSE r.statusCode,
                  !.wire = IF chunk = NoChunk THEN @ ELSE Append(@, chunk)]

\* res.end as the caller sees it: the interceptor while installed
ResEnd(r, chunk) ==
  IF r.endHooked THEN [r EXCEPT !.endArgs = chunk] ELSE OriginalEnd(r, chunk)

\* res.status(code).json(body) / .send(body): sets headers, then calls res.end.
\* Setting a header after the header block was flushed throws.
ResStatusJson(r, code, chunk) ==
  IF r.headersSent THEN [r EXCEPT !.statusCode = code]
  ELSE ResEnd([r EXCEPT !.statusCode = code], chunk)

\* res.end = originalEnd; if (endArgs) originalEnd(...endArgs)
RestoreAndFlush(r) ==
  LET r1 == [r EXCEPT !.endHooked = FALSE] IN
  IF r.endArgs # Null THEN OriginalEnd(r1, r.endArgs) ELSE r1

\* exact.evm.decodePayment: base64 -> JSON -> supported network -> schema
DecodePaymentOk(h) ==
  /\ h.kind = "payload"
  /\ h.network \in Networks
  /\ h.scheme = "exact"

\* A selection that takes the route's requirement whatever the payload names
FindFirstPaymentRequirements(rq) == TRUE

\* findMatchingPaymentRequirements over the single requirement of the route
FindMatchingPaymentRequirements(rq) ==
  /\ rq.header.scheme = "exact"
  /\ rq.header.network = rq.network

\* The handler's synchronous answer
HandlerAnswer(r, h) ==
  IF h.style = "json"
  THEN ResStatusJson(r, h.status, "handler_body")
  ELSE IF h.style = "json_twice"
  THEN ResStatusJson(ResStatusJson(r, h.status, "handler_body"), h.status,
                     "handler_second_body")
  ELSE ResEnd(OriginalWrite([r EXCEPT !.statusCode = h.status], "handler_stream_chunk"),
              NoChunk)

\* next(): Express runs the handler up to its first await and returns
CallNext(r, h) == IF h.async THEN r ELSE HandlerAnswer(r, h)

HpcAfterNext(h) == IF h.async THEN "started" ELSE "done"

Init ==
  /\ req \in Requests
  /\ handler \in Handlers
  /\ mwpc = "start"
  /\ hpc = "idle"
  /\ res = InitRes
  /\ verifyResult = "none"
  /\ settleResult = "none"
  /\ vin = <<>> /\ vout = <<>>
  /\ calls = <<>> /\ chain = Null

\* no matching route: return next()
MwPassThrough ==
  /\ mwpc = "start"
  /\ ~req.matched
  /\ mwpc' = "done"
  /\ res' = CallNext(res, handler)
  /\ hpc' = HpcAfterNext(handler)
  /\ UNCHANGED <<req, handler, verifyResult, settleResult, vfVars, stVars>>

RouteConfigOk(rq) == rq.priceValid /\ rq.network \in Networks /\ rq.feePayerKnown

\* processPriceToAtomicAmount fails, the network is unsupported, or the
\* facilitator names no fee payer: the middleware throws
MwConfigError ==
  /\ mwpc = "start"
  /\ req.matched
  /\ ~RouteConfigOk(req)
  /\ mwpc' = "threw"
  /\ UNCHANGED <<req, handler, hpc, res, verifyResult, settleResult, vfVars, stVars>>

\* A challenge that is the HTML paywall for every client
ChallengeBodyPaywallAlways(rq) == "paywall_html"

\* The body of the 402 for a missing header: the HTML paywall for a browser,
\* otherwise the JSON with error "X-PAYMENT header is required" and accepts
ChallengeBody(rq) ==
  IF rq.browser THEN "paywall_html" ELSE "json_402_header_required"

\* no X-PAYMENT header: 402 with the paywall or the JSON challenge
MwChallenge ==
  /\ mwpc = "start"
  /\ req.matched
  /\ RouteConfigOk(req)
  /\ req.header.kind = "none"
  /\ res' = ResStatusJson(res, PaymentRequiredStatus, ChallengeBody(req))
  /\ mwpc' = "done"
  /\ UNCHANGED <<req, handler, hpc, verifyResult, settleResult, vfVars, stVars>>

\* decodePayment throws, or no requirement matches the payload
MwRejectHeader ==
  /\ mwpc = "start"
  /\ req.matched
  /\ RouteConfigOk(req)
  /\ req.header.kind # "none"
  /\ ~(DecodePaymentOk(req.header) /\ FindMatchingPaymentRequirements(req))
  /\ res' = ResStatusJson(res, PaymentRequiredStatus, "json_402")
  /\ mwpc' = "done"
  /\ UNCHANGED <<req, handler, hpc, verifyResult, settleResult, vfVars, stVars>>

\* the header decodes and matches: await verify(...)
MwCallVerify ==
  /\ mwpc = "start"
  /\ req.matched
  /\ RouteConfigOk(req)
  /\ DecodePaymentOk(req.header)
  /\ FindMatchingPaymentRequirements(req)
  /\ mwpc' = "verify"
  /\ UNCHANGED <<req, handler, hpc, res, verifyResult, settleResult, vfVars, stVars>>

\* A catch block around verify that logs and falls through
VerifyLetsThroughOnThrow(v) == v # "invalid"

\* The branch taken on verify's answer: TRUE when the middleware goes on to
\* the handler
VerifyLetsThrough(v) == v = "valid"

\* verify answered: 402 unless isValid; otherwise install the res.end
\* interceptor and call next()
MwVerifyReturns ==
  /\ mwpc = "verify"
  /\ \E v \in {"valid", "invalid", "throws"} :
       /\ verifyResult' = v
       /\ IF VerifyLetsThrough(v)
          THEN /\ res' = CallNext([res EXCEPT !.endHooked = TRUE], handler)
               /\ hpc' = HpcAfterNext(handler)
               /\ mwpc' = "next_returned"
          ELSE /\ res' = ResStatusJson(res, PaymentRequiredStatus, "json_402")
               /\ hpc' = hpc
               /\ mwpc' = "done"
  /\ UNCHANGED <<req, handler, settleResult, vfVars, stVars>>

\* if (res.statusCode >= 400) after await next()
SkipsSettlement(r) == r.statusCode >= SettleThreshold

\* await next() resumed with a failed status: restore res.end, replay, return
MwSkipSettle ==
  /\ mwpc = "next_returned"
  /\ SkipsSettlement(res)
  /\ res' = RestoreAndFlush(res)
  /\ mwpc' = "done"
  /\ UNCHANGED <<req, handler, hpc, verifyResult, settleResult, vfVars, stVars>>

\* await next() resumed otherwise: await settle(...)
MwCallSettle ==
  /\ mwpc = "next_returned"
  /\ ~SkipsSettlement(res)
  /\ settleResult' = "pending"
  /\ mwpc' = "settle"
  /\ UNCHANGED <<req, handler, hpc, res, verifyResult, vfVars, stVars>>

\* The try block after settle returned a response s (success or failure)
AfterSettleResponse(r, s) ==
  IF r.headersSent
  THEN r    \* setHeader throws; the catch sees headersSent and sends nothing
  ELSE LET r1 == [r EXCEPT !.xPaymentResponse = s] IN
       IF s = "success" THEN r1
       ELSE ResStatusJson(r1, PaymentRequiredStatus, "json_402")

\* The catch block after settle threw
AfterSettleThrow(r) ==
  IF r.headersSent THEN r ELSE ResStatusJson(r, PaymentRequiredStatus, "json_402")

\* settle answered or threw; the finally block restores res.end and replays
MwSettleReturns ==
  /\ mwpc = "settle"
  /\ \E s \in {"success", "failure", "throws"} :
       /\ settleResult' = s
       /\ res' = RestoreAndFlush(IF s = "throws" THEN AfterSettleThrow(res)
                                 ELSE AfterSettleResponse(res, s))
  /\ mwpc' = "done"
  /\ UNCHANGED <<req, handler, hpc, verifyResult, vfVars, stVars>>

\* an asynchronous streaming handler writes its first chunk
HandlerWrite ==
  /\ hpc = "started"
  /\ handler.style = "stream"
  /\ res' = OriginalWrite([res EXCEPT !.statusCode = handler.status],
                          "handler_stream_chunk")
  /\ hpc' = "wrote"
  /\ UNCHANGED <<req, handler, mwpc, verifyResult, settleResult, vfVars, stVars>>

\* an asynchronous handler completes its response
HandlerFinish ==
  /\ \/ hpc = "started" /\ handler.style # "stream"
     \/ hpc = "wrote"
  /\ res' = IF handler.style # "stream"
            THEN HandlerAnswer(res, handler)
            ELSE ResEnd(res, NoChunk)
  /\ hpc' = "done"
  /\ UNCHANGED <<req, handler, mwpc, verifyResult, settleResult, vfVars, stVars>>

NextMw ==
  \/ MwPassThrough
  \/ MwConfigError
  \/ MwChallenge
  \/ MwRejectHeader
  \/ MwCallVerify
  \/ MwVerifyReturns
  \/ MwSkipSettle
  \/ MwCallSettle
  \/ MwSettleReturns
  \/ HandlerWrite
  \/ HandlerFinish

Next == NextMw

Spec == Init /\ [][Next]_vars

(***************************************************************************)
(* Part 2.  The facilitator's introspector and verify                      *)
(*          (lib/x402/schemes/exact/svm/facilitator/verify.ts)             *)
(***************************************************************************)

\* Bounds of the transactions explored
MaxInstructions == 5
MaxAmount == 2

SCHEME == "exact"

SupportedSVMNetworks == Networks

COMPUTE_BUDGET_PROGRAM_ADDRESS == "ComputeBudget111"
TOKEN_PROGRAM_ADDRESS == "TokenkegQ"
TOKEN_2022_PROGRAM_ADDRESS == "TokenzQd"
ASSOCIATED_TOKEN_PROGRAM_ADDRESS == "ATokenGPv"
SYSTEM_PROGRAM_ADDRESS == "System111"

SetComputeUnitLimitDiscriminator == 2
SetComputeUnitPriceDiscriminator == 3
TransferCheckedDiscriminator == 12
TransferDiscriminator == 3

\* 5 * 1_000_000 microLamports
MaxComputeUnitPrice == 5000000

ErrUnsupportedScheme == "unsupported_scheme"
ErrInvalidNetwork == "invalid_network"
ErrTransaction == "invalid_exact_svm_payload_transaction"
ErrAmountMismatch == "invalid_exact_svm_payload_transaction_amount_mismatch"
ErrCreateAta == "invalid_exact_svm_payload_transaction_create_ata_instruction"
ErrCreateAtaPayee ==
  "invalid_exact_svm_payload_transaction_create_ata_instruction_incorrect_payee"
ErrCreateAtaAsset ==
  "invalid_exact_svm_payload_transaction_create_ata_instruction_incorrect_asset"
ErrInstructions == "invalid_exact_svm_payload_transaction_instructions"
ErrInstructionsLength == "invalid_exact_svm_payload_transaction_instructions_length"
ErrComputeLimit ==
  "invalid_exact_svm_payload_transaction_instructions_compute_limit_instruction"
ErrComputePrice ==
  "invalid_exact_svm_payload_transaction_instructions_compute_price_instruction"
ErrComputePriceTooHigh ==
  "invalid_exact_svm_payload_transaction_instructions_compute_price_instruction_too_high"
ErrNotSplTransferChecked ==
  "invalid_exact_svm_payload_transaction_instruction_not_spl_token_transfer_checked"
ErrNotToken2022TransferChecked ==
  "invalid_exact_svm_payload_transaction_instruction_not_token_2022_transfer_checked"
ErrNotATransfer == "invalid_exact_svm_payload_transaction_not_a_transfer_instruction"
ErrReceiverAtaNotFound == "invalid_exact_svm_payload_transaction_receiver_ata_not_found"
ErrSenderAtaNotFound == "invalid_exact_svm_payload_transaction_sender_ata_not_found"
ErrSimulationFailed == "invalid_exact_svm_payload_transaction_simulation_failed"
ErrIncorrectAta == "invalid_exact_svm_payload_transaction_transfer_to_incorrect_ata"
ErrBlockHeightExceeded == "settle_exact_svm_block_height_exceeded"
ErrConfirmationTimedOut == "settle_exact_svm_transaction_confirmation_timed_out"
ErrUnexpectedSettle == "unexpected_settle_error"
ErrUnexpectedVerify == "unexpected_verify_error"

\* The reasons of ErrorReasons a facilitator on Solana can produce
ErrorReasons ==
  {ErrUnsupportedScheme, ErrInvalidNetwork, ErrTransaction, ErrAmountMismatch,
   ErrCreateAta, ErrCreateAtaPayee, ErrCreateAtaAsset, ErrInstructions,
   ErrInstructionsLength, ErrComputeLimit, ErrComputePrice, ErrComputePriceTooHigh,
   ErrNotSplTransferChecked, ErrNotToken2022TransferChecked, ErrNotATransfer,
   ErrReceiverAtaNotFound, ErrSenderAtaNotFound, ErrSimulationFailed, ErrIncorrectAta,
   ErrBlockHeightExceeded, ErrConfirmationTimedOut, ErrUnexpectedSettle,
   ErrUnexpectedVerify}

\* No exception
Ok == "ok"

\* An exception of a library parser, whose message is no ErrorReason
CodecError == "codec_error"

NoAddress == "none"

\* A payload whose transaction field is not the base64 of a transaction
Undecodable == [decodes |-> FALSE, instructions |-> <<>>]

\* findAssociatedTokenPda: the address derived from (owner, token program, mint)
FindAssociatedTokenPda(mint, owner, tokenProgram) == <<"ata", mint, owner, tokenProgram>>

\* A decompiled instruction: its program, whether it lacks data or accounts
\* altogether, the first data byte, whether the rest of its data and accounts
\* has the layout its parser expects, and the parsed operands
BlankInstruction ==
  [programAddress |-> SYSTEM_PROGRAM_ADDRESS, bare |-> FALSE, disc |-> 0,
   wellFormed |-> TRUE, microLamports |-> 0, owner |-> NoAddress, mint |-> NoAddress,
   source |-> NoAddress, destination |-> NoAddress, authority |-> NoAddress,
   amount |-> 0]

\* if (payload.scheme !== SCHEME || ...) throw; if (network ...) throw
VerifySchemesAndNetworks(payload, paymentRequirements) ==
  IF payload.scheme # SCHEME \/ paymentRequirements.scheme # SCHEME
  THEN ErrUnsupportedScheme
  ELSE IF \/ payload.network # paymentRequirements.network
          \/ paymentRequirements.network \notin SupportedSVMNetworks
       THEN ErrInvalidNetwork
       ELSE Ok

VerifyComputeLimitInstruction(instruction) ==
  IF \/ instruction.programAddress # COMPUTE_BUDGET_PROGRAM_ADDRESS
     \/ instruction.bare
     \/ instruction.disc # SetComputeUnitLimitDiscriminator
     \/ ~instruction.wellFormed
  THEN ErrComputeLimit
  ELSE Ok

\* A cap that is never enforced
PriceNeverTooHigh(microLamports) == FALSE

\* parsedInstruction.data.microLamports > 5 * 1_000_000
PriceTooHigh(microLamports) == microLamports > MaxComputeUnitPrice

VerifyComputePriceInstruction(instruction) ==
  IF \/ instruction.programAddress # COMPUTE_BUDGET_PROGRAM_ADDRESS
     \/ instruction.bare
     \/ instruction.disc # SetComputeUnitPriceDiscriminator
  THEN ErrComputePrice
  ELSE IF ~instruction.wellFormed
       THEN CodecError
       ELSE IF PriceTooHigh(instruction.microLamports)
            THEN ErrComputePriceTooHigh
            ELSE Ok

\* A create-ATA check that compares the owner only
VerifyCreateATAInstructionPayeeOnly(instruction, paymentRequirements) ==
  IF instruction.bare \/ ~instruction.wellFormed
  THEN ErrCreateAta
  ELSE IF instruction.owner # paymentRequirements.payTo
       THEN ErrCreateAtaPayee
       ELSE Ok

\* parseCreateAssociatedTokenInstruction reads the accounts and the data; it
\* does not look at the program address
VerifyCreateATAInstruction(instruction, paymentRequirements) ==
  IF instruction.bare \/ ~instruction.wellFormed
  THEN ErrCreateAta
  ELSE IF instruction.owner # paymentRequirements.payTo
       THEN ErrCreateAtaPayee
       ELSE IF instruction.mint # paymentRequirements.asset
            THEN ErrCreateAtaAsset
            ELSE Ok

GetValidatedTransferCheckedInstruction(instruction) ==
  IF instruction.bare
  THEN ErrInstructions
  ELSE
  IF instruction.programAddress = TOKEN_PROGRAM_ADDRESS
  THEN IF instruction.disc # TransferCheckedDiscriminator
       THEN ErrNotSplTransferChecked
       ELSE IF instruction.wellFormed THEN Ok ELSE CodecError
  ELSE IF instruction.programAddress = TOKEN_2022_PROGRAM_ADDRESS
       THEN IF instruction.disc # TransferCheckedDiscriminator
            THEN ErrNotToken2022TransferChecked
            ELSE IF instruction.wellFormed THEN Ok ELSE CodecError
       ELSE ErrNotATransfer

\* A fetch that is answered from what an earlier verification left behind:
\* once a response exists every account is taken to exist
MissingAccountsRemembered(addresses, accounts) ==
  IF vout # <<>> THEN <<>> ELSE SelectSeq(addresses, LAMBDA a : a \notin accounts)

\* fetchEncodedAccounts, then filter(a => !a.exists)
MissingAccounts(addresses, accounts) ==
  SelectSeq(addresses, LAMBDA a : a \notin accounts)

\* A loop that demands the destination ATA whatever the transaction creates
MissingAccountReasonIgnoringCreate(missing, source, payToATA, txHasCreateDestATAInstruction) ==
  IF \E i \in DOMAIN missing : missing[i] = source THEN ErrSenderAtaNotFound
  ELSE IF \E i \in DOMAIN missing : missing[i] = payToATA THEN ErrReceiverAtaNotFound
  ELSE Ok

\* The loop over the missing accounts: the first that throws decides
MissingAccountReason(missing, source, payToATA, txHasCreateDestATAInstruction) ==
  LET throws(i) == \/ missing[i] = source
                   \/ missing[i] = payToATA /\ ~txHasCreateDestATAInstruction
      hits == {i \in DOMAIN missing : throws(i)}
  IN IF hits = {} THEN Ok
     ELSE LET first == CHOOSE i \in hits : \A j \in hits : i <= j
          IN IF missing[first] = source THEN ErrSenderAtaNotFound
             ELSE ErrReceiverAtaNotFound

\* An amount check that lets an overpayment through
AmountAtLeast(instructionAmount, paymentRequirementsAmount) ==
  instructionAmount >= paymentRequirementsAmount

\* instructionAmount !== paymentRequirementsAmount is the rejection
AmountMatches(instructionAmount, paymentRequirementsAmount) ==
  instructionAmount = paymentRequirementsAmount

\* A destination check that trusts the instruction
ExpectedDestinationUnchecked(parsedInstruction, paymentRequirements) ==
  parsedInstruction.destination

\* payToATA: the ATA of (asset, payTo) under the token program of the transfer
ExpectedDestination(parsedInstruction, paymentRequirements) ==
  FindAssociatedTokenPda(
    paymentRequirements.asset, paymentRequirements.payTo,
    IF parsedInstruction.programAddress = TOKEN_PROGRAM_ADDRESS
    THEN TOKEN_PROGRAM_ADDRESS ELSE TOKEN_2022_PROGRAM_ADDRESS)

VerifyTransferCheckedInstruction(parsedInstruction, paymentRequirements, txHasCreateDestATAInstruction, accounts) ==
  LET payToATA == ExpectedDestination(parsedInstruction, paymentRequirements)
      missing == MissingAccounts(<<parsedInstruction.source, payToATA>>, accounts)
      missingReason == MissingAccountReason(missing, parsedInstruction.source, payToATA,
                                            txHasCreateDestATAInstruction)
  IN IF parsedInstruction.destination # payToATA
     THEN ErrIncorrectAta
     ELSE IF missingReason # Ok
          THEN missingReason
          ELSE IF ~AmountMatches(parsedInstruction.amount,
                                 paymentRequirements.maxAmountRequired)
               THEN ErrAmountMismatch
               ELSE Ok

VerifyTransferInstruction(instruction, paymentRequirements, txHasCreateDestATAInstruction, accounts) ==
  LET validated == GetValidatedTransferCheckedInstruction(instruction)
  IN IF validated # Ok THEN validated
     ELSE VerifyTransferCheckedInstruction(instruction, paymentRequirements,
                                           txHasCreateDestATAInstruction, accounts)

\* A count check with a lower bound only
InstructionsLengthAtLeast(instructions) == Len(instructions) >= 3

\* instructions.length !== 3 && instructions.length !== 4 is the rejection
InstructionsLengthOk(instructions) == Len(instructions) = 3 \/ Len(instructions) = 4

\* An introspector that identifies the transfer before it looks at the
\* create-ATA instruction
VerifyTransactionInstructionsTransferFirst(instructions, paymentRequirements, accounts) ==
  IF ~InstructionsLengthOk(instructions)
  THEN ErrInstructionsLength
  ELSE LET limit == VerifyComputeLimitInstruction(instructions[1])
           price == VerifyComputePriceInstruction(instructions[2])
           validated == GetValidatedTransferCheckedInstruction(
                          instructions[Len(instructions)])
           create == IF Len(instructions) = 4
                     THEN VerifyCreateATAInstruction(instructions[3], paymentRequirements)
                     ELSE Ok
       IN IF limit # Ok THEN limit
          ELSE IF price # Ok THEN price
          ELSE IF validated # Ok THEN validated
          ELSE IF create # Ok THEN create
          ELSE VerifyTransferCheckedInstruction(instructions[Len(instructions)],
                                                paymentRequirements,
                                                Len(instructions) = 4, accounts)

VerifyTransactionInstructions(instructions, paymentRequirements, accounts) ==
  IF ~InstructionsLengthOk(instructions)
  THEN ErrInstructionsLength
  ELSE LET limit == VerifyComputeLimitInstruction(instructions[1])
           price == VerifyComputePriceInstruction(instructions[2])
       IN IF limit # Ok THEN limit
          ELSE IF price # Ok THEN price
          ELSE IF Len(instructions) = 3
               THEN VerifyTransferInstruction(instructions[3], paymentRequirements,
                                              FALSE, accounts)
               ELSE LET create == VerifyCreateATAInstruction(instructions[3],
                                                             paymentRequirements)
                    IN IF create # Ok THEN create
                       ELSE VerifyTransferInstruction(instructions[4],
                                                      paymentRequirements, TRUE, accounts)

\* decodeTransactionFromPayload
DecodeTransactionFromPayload(svmPayload) ==
  IF ~svmPayload.transaction.decodes THEN ErrTransaction ELSE Ok

TransactionIntrospection(svmPayload, paymentRequirements, accounts) ==
  IF DecodeTransactionFromPayload(svmPayload) # Ok
  THEN ErrTransaction
  ELSE VerifyTransactionInstructions(svmPayload.transaction.instructions,
                                     paymentRequirements, accounts)

\* getTokenPayerFromTransaction: the fourth account of the first instruction
\* of a token program that has four accounts
GetTokenPayerFromTransaction(transaction) ==
  LET ixs == transaction.instructions
      token == {i \in DOMAIN ixs :
                  /\ ixs[i].programAddress \in
                       {TOKEN_PROGRAM_ADDRESS, TOKEN_2022_PROGRAM_ADDRESS}
                  /\ ~ixs[i].bare
                  /\ ixs[i].wellFormed}
  IN IF token = {} THEN ""
     ELSE ixs[CHOOSE i \in token : \A j \in token : i <= j].authority

\* The payer of a response built in the catch block
PayerOrUndefined(payload) ==
  IF DecodeTransactionFromPayload(payload) # Ok THEN Null
  ELSE GetTokenPayerFromTransaction(payload.transaction)

\* A verify that signs and simulates before it looks into the transaction
VerifyExceptionSimulatingFirst(payload, paymentRequirements, accounts, simulation) ==
  LET schemes == VerifySchemesAndNetworks(payload, paymentRequirements)
      introspection == TransactionIntrospection(payload, paymentRequirements, accounts)
  IN IF schemes # Ok THEN schemes
     ELSE IF DecodeTransactionFromPayload(payload) # Ok THEN ErrTransaction
     ELSE IF simulation = "err" THEN ErrSimulationFailed
     ELSE IF simulation = "rpc_error" THEN "rpc_error"
     ELSE introspection

\* The first exception thrown inside verify's try block; simulation is what
\* the RPC answers to simulateTransaction of the fee-payer-signed transaction
VerifyException(payload, paymentRequirements, accounts, simulation) ==
  LET schemes == VerifySchemesAndNetworks(payload, paymentRequirements)
      introspection == TransactionIntrospection(payload, paymentRequirements, accounts)
  IN IF schemes # Ok THEN schemes
     ELSE IF introspection # Ok THEN introspection
     ELSE IF simulation = "err" THEN ErrSimulationFailed
     ELSE IF simulation = "rpc_error" THEN "rpc_error"
     ELSE Ok

\* signAndSimulateTransaction was reached in verify's try block: nothing was
\* thrown, or what was thrown came of the simulation
SignAndSimulateRan(thrown) == thrown \in {Ok, ErrSimulationFailed, "rpc_error"}

\* A catch block that passes the message of every exception on
CaughtReasonVerbatim(thrown) == thrown

\* The catch block of verify: the message of the exception when it is one of
\* ErrorReasons, unexpected_verify_error otherwise
CaughtReason(thrown) ==
  IF thrown \in ErrorReasons THEN thrown ELSE ErrUnexpectedVerify

Verify(payload, paymentRequirements, accounts, simulation) ==
  LET thrown == VerifyException(payload, paymentRequirements, accounts, simulation)
  IN IF thrown = Ok
     THEN [isValid |-> TRUE, invalidReason |-> Null,
           payer |-> GetTokenPayerFromTransaction(payload.transaction)]
     ELSE [isValid |-> FALSE,
           invalidReason |-> CaughtReason(thrown),
           payer |-> PayerOrUndefined(payload)]


(***************************************************************************)
(* The inputs of VerifySpec                                                *)
(***************************************************************************)

PayTo == "merchant"
Asset == "usdc_mint"
Client == "client"
Attacker == "attacker"
FeePayer == "facilitator"

SourceAta == FindAssociatedTokenPda(Asset, Client, TOKEN_PROGRAM_ADDRESS)

PayToAtas ==
  {FindAssociatedTokenPda(Asset, PayTo, TOKEN_PROGRAM_ADDRESS),
   FindAssociatedTokenPda(Asset, PayTo, TOKEN_2022_PROGRAM_ADDRESS)}

SetComputeUnitLimitIx ==
  [BlankInstruction EXCEPT !.programAddress = COMPUTE_BUDGET_PROGRAM_ADDRESS,
                           !.disc = SetComputeUnitLimitDiscriminator]

SetComputeUnitPriceIx(microLamports) ==
  [BlankInstruction EXCEPT !.programAddress = COMPUTE_BUDGET_PROGRAM_ADDRESS,
                           !.disc = SetComputeUnitPriceDiscriminator,
                           !.microLamports = microLamports]

CreateAssociatedTokenIx(owner, mint) ==
  [BlankInstruction EXCEPT !.programAddress = ASSOCIATED_TOKEN_PROGRAM_ADDRESS,
                           !.owner = owner, !.mint = mint]

TransferCheckedIx(program, destination, amount) ==
  [BlankInstruction EXCEPT !.programAddress = program,
                           !.disc = TransferCheckedDiscriminator,
                           !.source = SourceAta, !.mint = Asset,
                           !.destination = destination,
                           !.authority = Client, !.amount = amount]

LimitSlotChoices ==
  {SetComputeUnitLimitIx,
   [SetComputeUnitLimitIx EXCEPT !.programAddress = SYSTEM_PROGRAM_ADDRESS],
   [SetComputeUnitLimitIx EXCEPT !.disc = SetComputeUnitPriceDiscriminator],
   \* an instruction of the token program whose fourth account is another's
   [TransferCheckedIx(TOKEN_PROGRAM_ADDRESS,
                      FindAssociatedTokenPda(Asset, Attacker, TOKEN_PROGRAM_ADDRESS), 1)
      EXCEPT !.authority = Attacker]}

PriceSlotChoices ==
  {SetComputeUnitPriceIx(m) : m \in {1, MaxComputeUnitPrice, MaxComputeUnitPrice + 1}}
  \cup {[SetComputeUnitPriceIx(1) EXCEPT !.disc = SetComputeUnitLimitDiscriminator],
        [SetComputeUnitPriceIx(MaxComputeUnitPrice + 1) EXCEPT !.wellFormed = FALSE]}

CreateSlotChoices ==
  {CreateAssociatedTokenIx(PayTo, Asset),
   CreateAssociatedTokenIx(Attacker, Asset),
   CreateAssociatedTokenIx(PayTo, "other_mint"),
   CreateAssociatedTokenIx(Attacker, "other_mint"),
   [CreateAssociatedTokenIx(PayTo, Asset) EXCEPT !.wellFormed = FALSE],
   [CreateAssociatedTokenIx(PayTo, Asset) EXCEPT !.bare = TRUE],
   [CreateAssociatedTokenIx(PayTo, Asset) EXCEPT !.programAddress = SYSTEM_PROGRAM_ADDRESS],
   \* an instruction of the token program with the accounts of a create-ATA:
   \* its fourth account is the mint
   [CreateAssociatedTokenIx(PayTo, Asset) EXCEPT !.programAddress = TOKEN_PROGRAM_ADDRESS,
                                                 !.authority = Asset]}

Destinations ==
  PayToAtas \cup {FindAssociatedTokenPda(Asset, Attacker, TOKEN_PROGRAM_ADDRESS)}

TransferSlotChoices ==
  {TransferCheckedIx(p, d, a) :
     p \in {TOKEN_PROGRAM_ADDRESS, TOKEN_2022_PROGRAM_ADDRESS, SYSTEM_PROGRAM_ADDRESS},
     d \in Destinations, a \in 0..MaxAmount}
  \cup {[TransferCheckedIx(p, FindAssociatedTokenPda(Asset, PayTo, p), 1)
           EXCEPT !.disc = TransferDiscriminator] :
          p \in {TOKEN_PROGRAM_ADDRESS, TOKEN_2022_PROGRAM_ADDRESS}}
  \cup {[TransferCheckedIx(TOKEN_PROGRAM_ADDRESS,
                           FindAssociatedTokenPda(Asset, PayTo, TOKEN_PROGRAM_ADDRESS), 1)
           EXCEPT !.bare = TRUE]}

\* Instructions that lists of any length are made of
RepeatedChoices ==
  {SetComputeUnitLimitIx,
   TransferCheckedIx(TOKEN_PROGRAM_ADDRESS,
                     FindAssociatedTokenPda(Asset, PayTo, TOKEN_PROGRAM_ADDRESS), 1),
   [BlankInstruction EXCEPT !.bare = TRUE]}

\* The instruction lists explored: every choice of each slot for the lengths
\* the introspector looks into; for each other length the lists of one
\* repeated instruction and a list that begins as a payment does
InstructionLists ==
  {<<l, p, t>> : l \in LimitSlotChoices, p \in PriceSlotChoices, t \in TransferSlotChoices}
  \cup {<<l, p, c, t>> : l \in LimitSlotChoices, p \in PriceSlotChoices,
                         c \in CreateSlotChoices, t \in TransferSlotChoices}
  \cup {[i \in 1..n |->
           IF i = 1 THEN SetComputeUnitLimitIx
           ELSE IF i = 2 THEN SetComputeUnitPriceIx(MaxComputeUnitPrice + 1)
           ELSE TransferCheckedIx(TOKEN_PROGRAM_ADDRESS,
                                  FindAssociatedTokenPda(Asset, Attacker,
                                                         TOKEN_PROGRAM_ADDRESS), 1)] :
          n \in (2..MaxInstructions) \ {3, 4}}
  \cup {[i \in 1..n |-> x] : n \in (0..MaxInstructions) \ {3, 4}, x \in RepeatedChoices}

Transactions ==
  {Undecodable} \cup {[decodes |-> TRUE, instructions |-> ixs] : ixs \in InstructionLists}

AccountSets ==
  {s \cup r : s \in {{}, {SourceAta}}, r \in {{}, PayToAtas}}

Requirements(network, amount) ==
  [scheme |-> SCHEME, network |-> network, maxAmountRequired |-> amount,
   payTo |-> PayTo, asset |-> Asset, feePayer |-> FeePayer]

\* Well-formed envelopes with every transaction, and the envelope failures
\* with one transaction
VerifyInputs ==
  [payload : [scheme : {SCHEME}, network : {"solana-devnet"}, transaction : Transactions],
   paymentRequirements : {Requirements("solana-devnet", a) : a \in 1..MaxAmount},
   accounts : AccountSets,
   simulation : {"ok", "err", "rpc_error"}]
  \cup
  [payload : [scheme : {SCHEME, "other"}, network : {"solana-devnet", "solana"},
              transaction : {[decodes |-> TRUE, instructions |->
                                <<SetComputeUnitLimitIx,
                                  SetComputeUnitPriceIx(MaxComputeUnitPrice + 1),
                                  TransferCheckedIx(TOKEN_PROGRAM_ADDRESS,
                                    FindAssociatedTokenPda(Asset, Attacker,
                                                           TOKEN_PROGRAM_ADDRESS), 1)>>]}],
   paymentRequirements : {Requirements(n, 1) : n \in {"solana-devnet", "base-sepolia"}},
   accounts : {{SourceAta} \cup PayToAtas},
   simulation : {"ok"}]

\* simulateTransaction is only called once introspection passed
(***************************************************************************)
(* The client transaction builder (createTransferTransactionMessage)      *)
(***************************************************************************)

\* The token programs that can own the mint; fetchMint tells which one does
MintPrograms == {TOKEN_PROGRAM_ADDRESS, TOKEN_2022_PROGRAM_ADDRESS, SYSTEM_PROGRAM_ADDRESS}

\* A builder that never creates the destination ATA
CreateAtaInstructionNever(paymentRequirements, tokenProgramAddress, accounts) == <<>>

\* createAtaInstructionOrUndefined: the create-ATA instruction for payTo when
\* fetchEncodedAccount says its ATA does not exist, nothing otherwise
CreateAtaInstructionOrUndefined(paymentRequirements, tokenProgramAddress, accounts) ==
  LET destinationATAAddress ==
        FindAssociatedTokenPda(paymentRequirements.asset, paymentRequirements.payTo,
                               tokenProgramAddress)
  IN IF destinationATAAddress \notin accounts
     THEN <<CreateAssociatedTokenIx(paymentRequirements.payTo, paymentRequirements.asset)>>
     ELSE <<>>

\* createTransferInstruction: TransferChecked of maxAmountRequired from the
\* client's ATA to the ATA of payTo, both under the program of the mint
CreateTransferInstruction(client, paymentRequirements, tokenProgramAddress) ==
  [BlankInstruction EXCEPT
     !.programAddress = tokenProgramAddress,
     !.disc = TransferCheckedDiscriminator,
     !.source = FindAssociatedTokenPda(paymentRequirements.asset, client,
                                       tokenProgramAddress),
     !.mint = paymentRequirements.asset,
     !.destination = FindAssociatedTokenPda(paymentRequirements.asset,
                                            paymentRequirements.payTo,
                                            tokenProgramAddress),
     !.authority = client,
     !.amount = paymentRequirements.maxAmountRequired]

\* createAtaAndTransferInstructions, for a mint of a known token program
CreateAtaAndTransferInstructions(client, paymentRequirements, tokenProgramAddress, accounts) ==
  CreateAtaInstructionOrUndefined(paymentRequirements, tokenProgramAddress, accounts)
    \o <<CreateTransferInstruction(client, paymentRequirements, tokenProgramAddress)>>

\* The simulation that estimates the compute units runs the transfer on the
\* chain as it is: it fails when the client's ATA does not exist
EstimateComputeUnitLimitSucceeds(client, paymentRequirements, tokenProgramAddress, accounts) ==
  FindAssociatedTokenPda(paymentRequirements.asset, client, tokenProgramAddress)
    \in accounts

\* createTransferTransactionMessage: the priority fee of 1 microlamport is
\* set on the empty message, the transfer instructions are appended, the
\* compute-unit limit is estimated and its instruction is prepended
CreateTransferTransactionMessage(client, paymentRequirements, tokenProgramAddress, accounts) ==
  LET txToSimulate ==
        <<SetComputeUnitPriceIx(1)>>
          \o CreateAtaAndTransferInstructions(client, paymentRequirements,
                                              tokenProgramAddress, accounts)
  IN <<SetComputeUnitLimitIx>> \o txToSimulate

\* The builder throws when the mint is of no known token program ("Asset was
\* not created by a known token program") and when the estimation fails
CreateTransferTransactionMessageThrows(client, paymentRequirements, tokenProgramAddress, accounts) ==
  \/ tokenProgramAddress \notin {TOKEN_PROGRAM_ADDRESS, TOKEN_2022_PROGRAM_ADDRESS}
  \/ ~EstimateComputeUnitLimitSucceeds(client, paymentRequirements,
                                       tokenProgramAddress, accounts)

\* The accounts the builder and the introspector fetch, for either program
BuilderAccounts ==
  {FindAssociatedTokenPda(Asset, owner, program) :
     owner \in {Client, PayTo},
     program \in {TOKEN_PROGRAM_ADDRESS, TOKEN_2022_PROGRAM_ADDRESS}}

\* What the builder is called with: the amount required, the program of the
\* mint and the accounts on chain, where it does not throw
Builds ==
  {b \in (1..MaxAmount) \X MintPrograms \X (SUBSET BuilderAccounts) :
     ~CreateTransferTransactionMessageThrows(
        Client, Requirements("solana-devnet", b[1]), b[2], b[3])}

\* The payments the builder makes, each on the chain state it was built on
BuiltInputs ==
  {[payload |-> [scheme |-> SCHEME, network |-> "solana-devnet",
                 transaction |-> [decodes |-> TRUE,
                                  instructions |-> CreateTransferTransactionMessage(
                                    Client, Requirements("solana-devnet", b[1]),
                                    b[2], b[3])]],
    paymentRequirements |-> Requirements("solana-devnet", b[1]),
    accounts |-> b[3],
    simulation |-> simulation] : b \in Builds, simulation \in {"ok", "err"}}

\* The token account of the facilitator's fee payer
FacilitatorAta == FindAssociatedTokenPda(Asset, FeePayer, TOKEN_PROGRAM_ADDRESS)

\* Payments out of the facilitator's own token account, with the fee payer
\* as the authority of the transfer: the fee payer's signature, which verify
\* adds before it simulates, is the only one such a transaction requires,
\* and the simulation succeeds when the account holds the amount
FacilitatorSpendInputs ==
  LET transfer(a) ==
        [TransferCheckedIx(TOKEN_PROGRAM_ADDRESS,
                           FindAssociatedTokenPda(Asset, PayTo, TOKEN_PROGRAM_ADDRESS), a)
           EXCEPT !.source = FacilitatorAta, !.authority = FeePayer]
      lists(a) == {<<SetComputeUnitLimitIx, SetComputeUnitPriceIx(1), transfer(a)>>,
                   <<SetComputeUnitLimitIx, SetComputeUnitPriceIx(1),
                     CreateAssociatedTokenIx(PayTo, Asset), transfer(a)>>}
  IN {[payload |-> [scheme |-> SCHEME, network |-> "solana-devnet",
                    transaction |-> [decodes |-> TRUE, instructions |-> ixs]],
       paymentRequirements |-> Requirements("solana-devnet", required),
       accounts |-> held \cup payee,
       simulation |-> simulation] :
        ixs \in lists(1) \cup lists(MaxAmount), required \in 1..MaxAmount,
        held \in {{}, {FacilitatorAta}}, payee \in {{}, PayToAtas},
        simulation \in {"ok", "err"}}

SimulationConsulted(in) ==
  /\ VerifySchemesAndNetworks(in.payload, in.paymentRequirements) = Ok
  /\ TransactionIntrospection(in.payload, in.paymentRequirements, in.accounts) = Ok

VerifyInit ==
  /\ vout = <<>>
  /\ vin \in VerifyInputs \cup BuiltInputs \cup FacilitatorSpendInputs
  /\ vin.simulation # "ok" => SimulationConsulted(vin)
  /\ req = Null /\ handler = Null /\ mwpc = "idle" /\ hpc = "idle" /\ res = Null
  /\ verifyResult = "none" /\ settleResult = "none"
  /\ calls = <<>> /\ chain = Null

\* verify(signer, payload, paymentRequirements)
RunVerify ==
  /\ vout = <<>>
  /\ vout' = <<Verify(vin.payload, vin.paymentRequirements, vin.accounts,
                      vin.simulation)>>
  /\ UNCHANGED <<vin, mwVars, stVars>>

\* Accounts on chain that the introspector does not fetch
OtherAccounts == {FindAssociatedTokenPda(Asset, Attacker, TOKEN_PROGRAM_ADDRESS)}

\* verify called again with the same payload and requirements, the fetched
\* accounts existing as before, whatever else exists on chain
ReplayVerify ==
  /\ Len(vout) = 1
  /\ \E others \in SUBSET OtherAccounts :
       vout' = Append(vout, Verify(vin.payload, vin.paymentRequirements,
                                   (vin.accounts \ OtherAccounts) \cup others,
                                   vin.simulation))
  /\ UNCHANGED <<vin, mwVars, stVars>>

VerifyNext == RunVerify \/ ReplayVerify

VerifySpec == VerifyInit /\ [][VerifyNext]_vars


(***************************************************************************)
(* Part 3: settle, and the chain it submits to.  Each call of settle is    *)
(* the settlement of one request; calls interleave at their awaits.  In    *)
(* SettleSpec time is not measured: a timer may fire whenever its wait is  *)
(* pending.  In TimedSettleSpec one call is followed with the time that    *)
(* passes in its waits; its RPC calls take no time.                        *)
(***************************************************************************)

NumCalls == 2
MaxBlockHeight == 1
MaxPolls == 1

\* setTimeout(() => abortController.abort(...), 60000)
SubscriptionTimeout == 60000

\* const timeout = 60000 of the polling loop
PollingTimeout == 60000

\* const pollInterval = 1000
PollInterval == 1000

\* errorReason of the polling loop for a transaction that landed with an error
ErrTransactionFailed == "settle_exact_svm_transaction_failed"

\* getSignatureFromTransaction: the fee payer's signature of the message
GetSignatureFromTransaction(transaction) == <<"sig", FeePayer, transaction.messageBytes>>

\* A transaction as the client builds it, with its blockhash lifetime
ClientTransaction(messageBytes, microLamports, amount) ==
  [decodes |-> TRUE,
   instructions |-> <<SetComputeUnitLimitIx, SetComputeUnitPriceIx(microLamports),
                      TransferCheckedIx(TOKEN_PROGRAM_ADDRESS,
                                        FindAssociatedTokenPda(Asset, PayTo,
                                                               TOKEN_PROGRAM_ADDRESS),
                                        amount)>>,
   messageBytes |-> messageBytes,
   lastValidBlockHeight |-> 0]

SettleRequirements == Requirements("solana-devnet", 1)

SettleAccounts == {SourceAta} \cup PayToAtas

\* A payment of the required amount and an overpayment
SettlePayloads ==
  <<[scheme |-> SCHEME, network |-> "solana-devnet",
     transaction |-> ClientTransaction("msgA", 1, 1)],
    [scheme |-> SCHEME, network |-> "solana-devnet",
     transaction |-> ClientTransaction("msgC", 1, 2)]>>

InitChain == [blockHeight |-> 0, pending |-> {}, confirmed |-> {}, failed |-> {}]

\* simulateTransaction with sigVerify and without replaceRecentBlockhash: a
\* transaction that was processed already, or whose blockhash expired, fails
SimulateTransaction(ch, transaction) ==
  IF \/ GetSignatureFromTransaction(transaction) \in ch.confirmed \cup ch.failed
     \/ ch.blockHeight > transaction.lastValidBlockHeight
  THEN "err" ELSE "ok"

\* A call of settle.  sendReturned, subscription and polled record the path
\* taken; sinceSend and sinceStart are the milliseconds since
\* sendSignedTransaction returned and since the timer of the current
\* confirmation was started, counted in a measured call only.  There polls
\* counts the iterations of the polling loop that ended in its catch,
\* lastWait holds the milliseconds the last iteration waited before the next
\* and pollGaps the milliseconds found between two successive iterations.
\* signed lists the steps at which the facilitator's key signed the
\* transaction: "verify" for signAndSimulateTransaction, "settle" for
\* signTransaction
NewCall(payload) ==
  [payload |-> payload, pc |-> "verify", verifyResponse |-> <<>>, sendCount |-> 0,
   polls |-> 0, result |-> <<>>, sendReturned |-> FALSE, subscription |-> "none",
   polled |-> FALSE, measured |-> FALSE, sinceSend |-> 0, sinceStart |-> 0,
   lastWait |-> <<>>, pollGaps |-> {}, signed |-> <<>>]

MeasuredCall(payload) == [NewCall(payload) EXCEPT !.measured = TRUE]

Return(call, success, errorReason, transaction) ==
  [call EXCEPT !.pc = "done",
               !.result = <<[success |-> success, errorReason |-> errorReason,
                             transaction |-> transaction]>>]

\* A settle that submits whatever verify answered
SettleProceedsAlways(verifyResponse) == TRUE

\* if (!verifyResponse.isValid) return ...
SettleProceeds(verifyResponse) == verifyResponse.isValid

\* settle, up to the answer of verify
SettleVerify(c) ==
  /\ calls[c].pc = "verify"
  /\ \E simulation \in {SimulateTransaction(chain, calls[c].payload.transaction),
                        "rpc_error"} :
       LET verifyResponse == Verify(calls[c].payload, SettleRequirements,
                                    SettleAccounts, simulation)
           thrown == VerifyException(calls[c].payload, SettleRequirements,
                                     SettleAccounts, simulation)
           call == [calls[c] EXCEPT !.verifyResponse = <<verifyResponse>>,
                                    !.signed = IF SignAndSimulateRan(thrown)
                                               THEN Append(@, "verify") ELSE @]
       IN calls' = [calls EXCEPT ![c] =
                      IF SettleProceeds(verifyResponse)
                      THEN [call EXCEPT !.pc = "sign"]
                      ELSE Return(call, FALSE, verifyResponse.invalidReason, "")]
  /\ UNCHANGED <<chain, mwVars, vfVars>>

\* decodeTransactionFromPayload, await signTransaction, getRpcClient and
\* getRpcSubscriptions stand before settle's try block: an exception of
\* theirs rejects the promise of settle
SignTransaction(c) ==
  /\ calls[c].pc = "sign"
  /\ \E throws \in BOOLEAN :
       calls' = [calls EXCEPT ![c] = [@ EXCEPT !.pc = IF throws THEN "threw"
                                                     ELSE "send",
                                            !.signed = Append(@, "settle")]]
  /\ UNCHANGED <<chain, mwVars, vfVars>>

\* A fallback that submits the transaction again before it polls
SendPositionOrFallback(call) == call.pc \in {"send", "polling"}

\* sendSignedTransaction is the first statement of
\* sendAndConfirmSignedTransaction and is called nowhere else
SendPosition(call) == call.pc = "send"

\* A send whose exception is swallowed, so that the confirmation starts anyway
SendOutcomeConfirmsAnyway(call, throws) ==
  [call EXCEPT !.pc = "subscription", !.sendReturned = ~throws,
               !.subscription = "pending"]

\* A catch block that reports no transaction when the send failed
SendOutcomeWithoutSignature(call, throws) ==
  IF throws
  THEN Return(call, FALSE, ErrUnexpectedSettle, "")
  ELSE [call EXCEPT !.pc = "subscription", !.sendReturned = TRUE,
                    !.subscription = "pending"]

\* await sendSignedTransaction(...): an exception leaves
\* sendAndConfirmSignedTransaction for settle's catch; otherwise
\* confirmSignedTransaction is called and starts its timer
SendOutcome(call, throws) ==
  IF throws
  THEN Return(call, FALSE, ErrUnexpectedSettle,
              GetSignatureFromTransaction(call.payload.transaction))
  ELSE [call EXCEPT !.pc = "subscription", !.sendReturned = TRUE,
                    !.subscription = "pending"]

\* sendSignedTransaction with skipPreflight; an exception of the RPC is
\* caught by settle
SendSignedTransaction(c) ==
  /\ SendPosition(calls[c])
  /\ \E throws \in BOOLEAN, received \in BOOLEAN :
       /\ ~throws => received
       /\ chain' = IF received
                   THEN [chain EXCEPT !.pending = @ \cup {calls[c].payload.transaction}]
                   ELSE chain
       /\ LET call == [calls[c] EXCEPT !.sendCount = @ + 1]
          IN calls' = [calls EXCEPT ![c] = SendOutcome(call, throws)]
  /\ UNCHANGED <<mwVars, vfVars>>

\* How waitForRecentTransactionConfirmation can end; "error" is any exception
\* other than block height exceeded and the abort
SubscriptionOutcomes == {"confirmed", "exceeded", "aborted", "error"}

\* A comparison that takes the last valid block height for an expired one
BlockHeightReached(ch, transaction) ==
  ch.blockHeight >= transaction.lastValidBlockHeight

\* currentBlockHeight > lastValidBlockHeight
BlockHeightExceeded(ch, transaction) ==
  ch.blockHeight > transaction.lastValidBlockHeight

\* The abort timer of confirmSignedTransaction has fired
AbortFires(call) == call.measured => call.sinceStart >= SubscriptionTimeout

\* The loop condition Date.now() - startTime < timeout is false
PollingDeadlinePassed(call) ==
  IF call.measured THEN call.sinceStart >= PollingTimeout ELSE call.polls >= 1

SubscriptionOutcomePossible(call, ch, outcome) ==
  /\ outcome = "confirmed"
       => GetSignatureFromTransaction(call.payload.transaction) \in ch.confirmed
  /\ outcome = "exceeded" => BlockHeightExceeded(ch, call.payload.transaction)
  /\ outcome = "aborted" => AbortFires(call)
  /\ outcome = "error" => ~(call.measured /\ call.sinceStart >= SubscriptionTimeout)

\* A catch that returns the confirmation only and rethrows everything else
ReturnedDirectlyWhenConfirmed(outcome) == outcome = "confirmed"

\* The outcomes confirmSignedTransaction returns; it rethrows the others
ReturnedDirectly(outcome) == outcome \in {"confirmed", "exceeded", "aborted"}

\* confirmSignedTransaction returns: confirmed, block height exceeded, or the
\* 60 s abort
ConfirmSignedTransaction(c) ==
  /\ calls[c].pc = "subscription"
  /\ LET signature == GetSignatureFromTransaction(calls[c].payload.transaction)
     IN \E outcome \in SubscriptionOutcomes :
          /\ ReturnedDirectly(outcome)
          /\ SubscriptionOutcomePossible(calls[c], chain, outcome)
          /\ LET call == [calls[c] EXCEPT !.subscription = outcome]
             IN calls' = [calls EXCEPT ![c] =
                            IF outcome = "confirmed"
                            THEN Return(call, TRUE, Null, signature)
                            ELSE IF outcome = "exceeded"
                                 THEN Return(call, FALSE, ErrBlockHeightExceeded, signature)
                                 ELSE Return(call, FALSE, ErrConfirmationTimedOut,
                                             signature)]
  /\ UNCHANGED <<chain, mwVars, vfVars>>

\* confirmSignedTransaction throws anything else (the subscription fails, or
\* the transaction landed with an error): the catch of
\* sendAndConfirmSignedTransaction calls confirmSignedTransactionWithPolling,
\* which takes its own startTime and whose statements before the loop may
\* throw into settle's catch
FallBackToPolling(c) ==
  /\ calls[c].pc = "subscription"
  /\ \E outcome \in SubscriptionOutcomes, throws \in BOOLEAN :
       /\ ~ReturnedDirectly(outcome)
       /\ SubscriptionOutcomePossible(calls[c], chain, outcome)
       /\ LET call == [calls[c] EXCEPT !.subscription = outcome, !.polled = TRUE,
                                       !.sinceStart = 0]
          IN calls' = [calls EXCEPT ![c] =
                         IF throws
                         THEN Return(call, FALSE, ErrUnexpectedSettle,
                                     GetSignatureFromTransaction(call.payload.transaction))
                         ELSE [call EXCEPT !.pc = "polling"]]
  /\ UNCHANGED <<chain, mwVars, vfVars>>

\* One evaluation of the loop condition of confirmSignedTransactionWithPolling
\* and, when it holds, one iteration; an iteration that finds nothing waits
\* pollInterval, one that catches an exception does not
ConfirmSignedTransactionWithPolling(c) ==
  /\ calls[c].pc = "polling"
  /\ LET transaction == calls[c].payload.transaction
         signature == GetSignatureFromTransaction(transaction)
         begun == IF calls[c].measured /\ calls[c].lastWait # <<>>
                  THEN [calls[c] EXCEPT !.pollGaps = @ \cup {calls[c].lastWait[1]}]
                  ELSE calls[c]
         again == IF calls[c].measured
                  THEN [begun EXCEPT !.sinceSend = @ + PollInterval,
                                     !.sinceStart = @ + PollInterval,
                                     !.lastWait = <<PollInterval>>]
                  ELSE [calls[c] EXCEPT !.polls = @ + 1]
         caught == IF calls[c].measured
                   THEN [begun EXCEPT !.polls = @ + 1, !.lastWait = <<0>>]
                   ELSE [calls[c] EXCEPT !.polls = @ + 1]
     IN \E outcome \in {"timeout", "rpc_error", "iteration"} :
          /\ outcome = "timeout" => PollingDeadlinePassed(calls[c])
          /\ (outcome # "timeout" /\ calls[c].measured)
               => ~PollingDeadlinePassed(calls[c])
          /\ calls' = [calls EXCEPT ![c] =
               IF outcome = "timeout"
               THEN Return(@, FALSE, ErrConfirmationTimedOut, signature)
               ELSE IF outcome = "rpc_error" THEN caught
               ELSE IF BlockHeightExceeded(chain, transaction)
                    THEN Return(begun, FALSE, ErrBlockHeightExceeded, signature)
               ELSE IF signature \in chain.failed
                    THEN Return(begun, FALSE, ErrTransactionFailed, signature)
               ELSE IF signature \in chain.confirmed
                    THEN Return(begun, TRUE, Null, signature)
               ELSE again]
          /\ calls'[c].polls <= MaxPolls
  /\ UNCHANGED <<chain, mwVars, vfVars>>

\* pollInterval of time passes while a measured call waits for its
\* subscription; the abort timer does not let the wait outlast it
TimePasses(c) ==
  /\ calls[c].measured
  /\ calls[c].pc = "subscription"
  /\ calls[c].sinceStart < SubscriptionTimeout
  /\ calls' = [calls EXCEPT ![c] = [@ EXCEPT !.sinceSend = @ + PollInterval,
                                             !.sinceStart = @ + PollInterval]]
  /\ UNCHANGED <<chain, mwVars, vfVars>>

\* The network processes a submitted transaction: once, while its blockhash
\* is valid; a duplicate or an expired transaction is dropped
ChainProcess ==
  /\ \E transaction \in chain.pending :
       LET signature == GetSignatureFromTransaction(transaction)
           dropped == \/ signature \in chain.confirmed \cup chain.failed
                      \/ chain.blockHeight > transaction.lastValidBlockHeight
       IN \E executes \in BOOLEAN :
            chain' = [chain EXCEPT
                        !.pending = @ \ {transaction},
                        !.confirmed = IF ~dropped /\ executes
                                      THEN @ \cup {signature} ELSE @,
                        !.failed = IF ~dropped /\ ~executes
                                   THEN @ \cup {signature} ELSE @]
  /\ UNCHANGED <<calls, mwVars, vfVars>>

ChainAdvance ==
  /\ chain.blockHeight < MaxBlockHeight
  /\ chain' = [chain EXCEPT !.blockHeight = @ + 1]
  /\ UNCHANGED <<calls, mwVars, vfVars>>

SettleInit ==
  /\ \E presented \in [1..NumCalls -> DOMAIN SettlePayloads] :
       \* calls are interchangeable: one numbering of each choice of payloads
       /\ \A c \in 1..(NumCalls - 1) : presented[c] <= presented[c + 1]
       /\ calls = [c \in 1..NumCalls |-> NewCall(SettlePayloads[presented[c]])]
  /\ chain = InitChain
  /\ vin = <<>> /\ vout = <<>>
  /\ req = Null /\ handler = Null /\ mwpc = "idle" /\ hpc = "idle" /\ res = Null
  /\ verifyResult = "none" /\ settleResult = "none"

SettleNext ==
  \/ \E c \in 1..NumCalls : SettleVerify(c)
  \/ \E c \in 1..NumCalls : SignTransaction(c)
  \/ \E c \in 1..NumCalls : SendSignedTransaction(c)
  \/ \E c \in 1..NumCalls : ConfirmSignedTransaction(c)
  \/ \E c \in 1..NumCalls : FallBackToPolling(c)
  \/ \E c \in 1..NumCalls : ConfirmSignedTransactionWithPolling(c)
  \/ ChainProcess
  \/ ChainAdvance

SettleSpec == SettleInit /\ [][SettleNext]_vars

\* One call of settle, its time measured
TimedSettleInit ==
  /\ \E presented \in DOMAIN SettlePayloads :
       calls = <<MeasuredCall(SettlePayloads[presented])>>
  /\ chain = InitChain
  /\ vin = <<>> /\ vout = <<>>
  /\ req = Null /\ handler = Null /\ mwpc = "idle" /\ hpc = "idle" /\ res = Null
  /\ verifyResult = "none" /\ settleResult = "none"

\* The one call of TimedSettleSpec
TimedCalls == {1}

TimedSettleNext ==
  \/ \E c \in TimedCalls : SettleVerify(c)
  \/ \E c \in TimedCalls : SignTransaction(c)
  \/ \E c \in TimedCalls : SendSignedTransaction(c)
  \/ \E c \in TimedCalls : ConfirmSignedTransaction(c)
  \/ \E c \in TimedCalls : FallBackToPolling(c)
  \/ \E c \in TimedCalls : ConfirmSignedTransactionWithPolling(c)
  \/ \E c \in TimedCalls : TimePasses(c)
  \/ ChainProcess
  \/ ChainAdvance

TimedSettleSpec == TimedSettleInit /\ [][TimedSettleNext]_vars


(***************************************************************************)
(* Part 4.  The wire codec, route matching, price conversion and the       *)
(* client.  Strings are sequences of UTF-16 code units; each function is   *)
(* applied to an input drawn in the initial state (vin) and its results    *)
(* are appended to vout.                                                   *)
(***************************************************************************)

\* A JSON scalar: a string, a number written with the given digits, a bigint
\* or an absent property
Str(units) == [type |-> "string", units |-> units]
Num(units) == [type |-> "number", units |-> units]
BigIntValue(units) == [type |-> "bigint", units |-> units]
Undefined == [type |-> "undefined", units |-> <<>>]

ExactUnits == <<101, 120, 97, 99, 116>>
SolanaDevnetUnits == <<115, 111, 108, 97, 110, 97, 45, 100, 101, 118, 110, 101, 116>>
SolanaUnits == <<115, 111, 108, 97, 110, 97>>
BaseSepoliaUnits == <<98, 97, 115, 101, 45, 115, 101, 112, 111, 108, 105, 97>>

\* One of the EVM networks of SupportedEVMNetworks stands for all of them
SupportedEVMNetworkUnits == {BaseSepoliaUnits}
SupportedSVMNetworkUnits == {SolanaDevnetUnits, SolanaUnits}

\* The result of a call that threw, and of one that returned
Threw(blank) == [threw |-> TRUE, value |-> blank]
Result(value) == [threw |-> FALSE, value |-> value]

\* JSON.stringify of a payment payload.  The punctuation and the key that
\* precede each value are written as one code unit below 32, which no string
\* value holds unescaped: 1 x402Version, 2 scheme, 3 network, 4 transaction,
\* 5 signature, 6 authorization, then 7..12 its from, to, value, validAfter,
\* validBefore, nonce.  A string is written between quotes (34), a number
\* bare, an absent property not at all; a bigint makes JSON.stringify throw.
JsonStringify(payment) ==
  LET field(marker, v) ==
        IF v.type = "undefined" THEN <<>>
        ELSE IF v.type = "string" THEN <<marker, 34>> \o v.units \o <<34>>
        ELSE <<marker>> \o v.units
      a == payment.authorization
      scalars == <<payment.x402Version, payment.scheme, payment.network,
                   payment.transaction, payment.signature>> \o a
  IN IF \E i \in DOMAIN scalars : scalars[i].type = "bigint"
     THEN Threw(<<>>)
     ELSE Result(
            field(1, payment.x402Version) \o field(2, payment.scheme)
              \o field(3, payment.network) \o field(4, payment.transaction)
              \o field(5, payment.signature)
              \o (IF a = <<>> THEN <<>>
                  ELSE <<6>> \o field(7, a[1]) \o field(8, a[2]) \o field(9, a[3])
                         \o field(10, a[4]) \o field(11, a[5]) \o field(12, a[6])))

\* JSON.parse of such a text
JsonParse(text) ==
  LET at(marker) == {i \in DOMAIN text : text[i] = marker}
      value(marker) ==
        IF at(marker) = {} THEN Undefined
        ELSE LET i == CHOOSE k \in at(marker) : TRUE
                 later == {k \in DOMAIN text : k > i /\ text[k] < 32}
                 j == IF later = {} THEN Len(text) + 1
                      ELSE CHOOSE k \in later : \A l \in later : k <= l
                 body == SubSeq(text, i + 1, j - 1)
             IN IF body # <<>> /\ body[1] = 34
                THEN Str(SubSeq(body, 2, Len(body) - 1))
                ELSE Num(body)
  IN [x402Version |-> value(1), scheme |-> value(2), network |-> value(3),
      transaction |-> value(4), signature |-> value(5),
      authorization |-> IF at(6) = {} THEN <<>>
                        ELSE <<value(7), value(8), value(9), value(10),
                               value(11), value(12)>>]

\* safeBase64Encode: btoa, which throws on a code unit above 255 and writes
\* three bytes as four sextets (64 stands for the padding "=")
SafeBase64Encode(data) ==
  IF \E i \in DOMAIN data : data[i] > 255 THEN Threw(<<>>)
  ELSE LET byte(i) == IF i <= Len(data) THEN data[i] ELSE 0
           group(g) == byte(3 * g + 1) * 65536 + byte(3 * g + 2) * 256 + byte(3 * g + 3)
           sextet(k) ==
             LET g == (k - 1) \div 4
                 pos == (k - 1) % 4
             IN IF pos = 0 THEN group(g) \div 262144
                ELSE IF pos = 1 THEN (group(g) \div 4096) % 64
                ELSE IF pos = 2
                     THEN IF 3 * g + 2 > Len(data) THEN 64 ELSE (group(g) \div 64) % 64
                     ELSE IF 3 * g + 3 > Len(data) THEN 64 ELSE group(g) % 64
       IN Result([k \in 1..(4 * ((Len(data) + 2) \div 3)) |-> sextet(k)])

\* safeBase64Decode: atob, one code unit per byte
SafeBase64Decode(data) ==
  LET pads == Cardinality({k \in DOMAIN data : data[k] = 64})
      six(k) == IF data[k] = 64 THEN 0 ELSE data[k]
      group(g) == six(4 * g + 1) * 262144 + six(4 * g + 2) * 4096
                    + six(4 * g + 3) * 64 + six(4 * g + 4)
      byte(i) ==
        LET g == (i - 1) \div 3
            pos == (i - 1) % 3
        IN IF pos = 0 THEN group(g) \div 65536
           ELSE IF pos = 1 THEN (group(g) \div 256) % 256
           ELSE group(g) % 256
  IN [i \in 1..(3 * (Len(data) \div 4) - pads) |-> byte(i)]

\* The regular expressions of x402Specs.ts, on code units
IsHexDigit(c) == c \in (48..57) \cup (65..70) \cup (97..102)
IsHexOfLength(units, n) ==
  /\ Len(units) = n + 2 /\ units[1] = 48 /\ units[2] = 120
  /\ \A i \in 3..Len(units) : IsHexDigit(units[i])
IsIntegerString(v) == v.type = "string" /\ \A i \in DOMAIN v.units : v.units[i] \in 48..57
Base64EncodedRegex(units) ==
  \E pad \in 0..2 :
    /\ pad <= Len(units)
    /\ \A i \in DOMAIN units :
         IF i > Len(units) - pad THEN units[i] = 61
         ELSE units[i] \in (48..57) \cup (65..90) \cup (97..122) \cup {43, 47}

BlankPayment ==
  [x402Version |-> Undefined, scheme |-> Undefined, network |-> Undefined,
   transaction |-> Undefined, signature |-> Undefined, authorization |-> <<>>]

\* PaymentPayloadSchema.parse: x402Version 1, scheme exact, a network of the
\* enumeration, and a payload that is an ExactEvmPayload or, failing that, an
\* ExactSvmPayload; the properties the matching schema does not name are
\* stripped.  isInteger is taken on strings of digits.
PaymentPayloadSchemaParse(obj) ==
  LET a == obj.authorization
      evm == /\ obj.signature.type = "string"
             /\ Len(obj.signature.units) > 2
             /\ IsHexOfLength(obj.signature.units, Len(obj.signature.units) - 2)
             /\ a # <<>>
             /\ a[1].type = "string" /\ IsHexOfLength(a[1].units, 40)
             /\ a[2].type = "string" /\ IsHexOfLength(a[2].units, 40)
             /\ IsIntegerString(a[3]) /\ Len(a[3].units) <= 18
             /\ IsIntegerString(a[4]) /\ IsIntegerString(a[5])
             /\ a[6].type = "string" /\ IsHexOfLength(a[6].units, 64)
      svm == /\ obj.transaction.type = "string"
             /\ Base64EncodedRegex(obj.transaction.units)
  IN IF \/ obj.x402Version # Num(<<49>>)
        \/ obj.scheme # Str(ExactUnits)
        \/ obj.network.type # "string"
        \/ obj.network.units \notin SupportedEVMNetworkUnits \cup SupportedSVMNetworkUnits
        \/ ~(evm \/ svm)
     THEN Threw(BlankPayment)
     ELSE IF evm THEN Result([obj EXCEPT !.transaction = Undefined])
          ELSE Result([obj EXCEPT !.signature = Undefined, !.authorization = <<>>])

\* encodePayment: on an EVM network the bigint values of the authorization
\* are written as strings first (Object.entries throws without an
\* authorization); an unsupported network throws
EncodePayment(payment) ==
  LET isEvm == payment.network.type = "string"
                 /\ payment.network.units \in SupportedEVMNetworkUnits
      isSvm == payment.network.type = "string"
                 /\ payment.network.units \in SupportedSVMNetworkUnits
      safe == IF isEvm
              THEN [payment EXCEPT !.authorization =
                      [i \in DOMAIN @ |-> IF @[i].type = "bigint"
                                          THEN Str(@[i].units) ELSE @[i]]]
              ELSE payment
      json == JsonStringify(safe)
  IN IF ~(isEvm \/ isSvm) \/ (isEvm /\ payment.authorization = <<>>) \/ json.threw
     THEN Threw(<<>>)
     ELSE SafeBase64Encode(json.value)

\* A decoder that takes the header for the JSON text itself
DecodePaymentSkippingBase64(payment) == PaymentPayloadSchemaParse(JsonParse(payment))

\* decodePayment: base64, JSON, supported network, schema
DecodePayment(payment) ==
  LET parsed == JsonParse(SafeBase64Decode(payment))
  IN IF \/ parsed.network.type # "string"
        \/ parsed.network.units \notin SupportedEVMNetworkUnits \cup SupportedSVMNetworkUnits
     THEN Threw(BlankPayment)
     ELSE PaymentPayloadSchemaParse(parsed)

\* The code units of a string at the indices kept, in their order
KeepIndices(units, kept) ==
  [k \in 1..Cardinality(kept) |->
     units[CHOOSE i \in kept : Cardinality({j \in kept : j <= i}) = k]]

\* decodeURIComponent: %XX becomes the character XX; a % that two hex digits
\* do not follow, or a byte that is no character by itself, is a URIError
DecodeURIComponent(units) ==
  LET hex(c) == IF c \in 48..57 THEN c - 48
                ELSE IF c \in 65..70 THEN c - 55 ELSE c - 87
      escaped(i) == units[i] = 37
      wellFormed(i) == /\ i + 2 <= Len(units)
                       /\ IsHexDigit(units[i + 1]) /\ IsHexDigit(units[i + 2])
                       /\ 16 * hex(units[i + 1]) + hex(units[i + 2]) < 128
      decoded == [i \in DOMAIN units |->
                    IF escaped(i) THEN 16 * hex(units[i + 1]) + hex(units[i + 2])
                    ELSE units[i]]
      kept == {i \in DOMAIN units :
                 ~(i > 1 /\ escaped(i - 1)) /\ ~(i > 2 /\ escaped(i - 2))}
  IN IF \E i \in DOMAIN units : escaped(i) /\ ~wellFormed(i)
     THEN Threw(<<>>)
     ELSE Result(KeepIndices(decoded, kept))

\* path.split(/[?#]/)[0]
PathWithoutQuery(path) ==
  LET marks == {i \in DOMAIN path : path[i] \in {63, 35}}
  IN IF marks = {} THEN path
     ELSE SubSeq(path, 1, (CHOOSE i \in marks : \A j \in marks : i <= j) - 1)

\* .replace(/\\/g, "/")
ReplaceBackslashes(units) == [i \in DOMAIN units |-> IF units[i] = 92 THEN 47 ELSE units[i]]

\* A normalization that leaves repeated slashes in place
CollapseSlashesNever(units) == units

\* .replace(/\/+/g, "/")
CollapseSlashes(units) ==
  KeepIndices(units, {i \in DOMAIN units : ~(units[i] = 47 /\ i > 1 /\ units[i - 1] = 47)})

\* .replace(/(.+?)\/+$/, "$1"): the trailing slashes go, the first character stays
TrimTrailingSlashes(units) ==
  LET ends == {n \in 1..Len(units) : \A i \in (n + 1)..Len(units) : units[i] = 47}
  IN IF units = <<>> THEN units
     ELSE SubSeq(units, 1, CHOOSE n \in ends : \A m \in ends : n <= m)

\* The try block of findMatchingRoute
NormalizePath(path) ==
  LET decodedPath == DecodeURIComponent(PathWithoutQuery(path))
  IN IF decodedPath.threw THEN decodedPath
     ELSE Result(TrimTrailingSlashes(CollapseSlashes(ReplaceBackslashes(
                   decodedPath.value))))

ToLowerCase(c) == IF c \in 65..90 THEN c + 32 ELSE c
ToUpperCase(units) == [i \in DOMAIN units |-> IF units[i] \in 97..122 THEN units[i] - 32 ELSE units[i]]

\* The length of the source of the regular expression computeRoutePatterns
\* makes of a route path: ^ and $, two characters for an escaped character
\* or slash, .*? for the wildcard
PatternSourceLength(path) ==
  LET width(c) == IF c = 42 THEN 3
                  ELSE IF c \in {36, 40, 41, 43, 46, 63, 94, 123, 124, 125, 47} THEN 2
                  ELSE 1
      total[i \in 0..Len(path)] == IF i = 0 THEN 2 ELSE total[i - 1] + width(path[i])
  IN total[Len(path)]

\* pattern.test(normalizedPath) for a route path of literal characters and
\* wildcards: anchored at both ends, letters compared without case
PatternTest(path, normalizedPath) ==
  LET lp == Len(path)
      ls == Len(normalizedPath)
      matches[i \in 1..(lp + 1), j \in 1..(ls + 1)] ==
        IF i = lp + 1 THEN j = ls + 1
        ELSE IF path[i] = 42
             THEN matches[i + 1, j] \/ (j <= ls /\ normalizedPath[j] # 10 /\ matches[i, j + 1])
             ELSE /\ j <= ls
                  /\ ToLowerCase(path[i]) = ToLowerCase(normalizedPath[j])
                  /\ matches[i + 1, j + 1]
  IN matches[1, 1]

\* findMatchingRoute over the patterns of computeRoutePatterns, each a verb
\* (upper case, or "*" = 42) and a route path: the index of the matching
\* route with the longest pattern source, the first of them on a tie, 0 for
\* undefined
FindMatchingRoute(routePatterns, path, method) ==
  LET normalized == NormalizePath(path)
      matching == {r \in DOMAIN routePatterns :
                     /\ PatternTest(routePatterns[r].path, normalized.value)
                     /\ \/ routePatterns[r].verb = <<42>>
                        \/ ToUpperCase(method) = routePatterns[r].verb}
  IN IF normalized.threw \/ matching = {} THEN 0
     ELSE CHOOSE r \in matching :
            \A q \in matching :
              \/ PatternSourceLength(routePatterns[q].path)
                   < PatternSourceLength(routePatterns[r].path)
              \/ /\ PatternSourceLength(routePatterns[q].path)
                      = PatternSourceLength(routePatterns[r].path)
                 /\ r <= q

\* Requests for the route /a/b written in every way that differs from it by
\* the case of a letter, the percent-encoding of a letter, slash or
\* backslash, a backslash for a slash, repeated or trailing slashes and an
\* appended query or fragment
PathVariants ==
  LET slash == {<<47>>, <<47, 47>>, <<92>>, <<37, 50, 70>>, <<37, 53, 99>>}
      a == {<<97>>, <<65>>, <<37, 54, 49>>, <<37, 52, 49>>}
      b == {<<98>>, <<66>>, <<37, 54, 50>>}
      tail == {<<>>, <<47>>, <<47, 47>>, <<92>>, <<63, 113>>, <<35, 104>>,
               <<47, 63, 37, 122>>}
  IN {s1 \o x \o s2 \o y \o t : s1 \in slash, x \in a, s2 \in slash, y \in b, t \in tail}

\* Other requests: another route, a prefix, an extension, an encoded question
\* mark, a malformed escape
OtherPaths ==
  {<<47, 97, 47, 99>>, <<47, 97>>, <<47, 97, 47, 98, 47, 99>>, <<47>>,
   <<47, 97, 47, 98, 37, 51, 70, 113>>, <<47, 97, 47, 37, 122, 122>>,
   <<47, 97, 98>>}

RouteTables ==
  {<<[verb |-> <<42>>, path |-> <<47, 97, 47, 98>>]>>,
   <<[verb |-> <<71, 69, 84>>, path |-> <<47, 97, 47, 42>>],
     [verb |-> <<42>>, path |-> <<47, 97, 47, 98>>]>>,
   <<[verb |-> <<80, 79, 83, 84>>, path |-> <<47, 97, 47, 98>>],
     [verb |-> <<71, 69, 84>>, path |-> <<47, 42>>]>>}

RouteInputs ==
  [fn : {"findMatchingRoute"}, routePatterns : RouteTables,
   method : {<<71, 69, 84>>, <<112, 111, 115, 116>>},
   canonical : {<<47, 97, 47, 98>>}, path : PathVariants]
  \cup {[fn |-> "findMatchingRoute", routePatterns |-> t, method |-> <<71, 69, 84>>,
         canonical |-> o, path |-> o] : t \in RouteTables, o \in OtherPaths}

\* A price in dollars is written with seven decimals: tenMillionths / 10^7.
\* moneySchema takes a number, or a string once its characters other than
\* digits, point and minus are removed, and rejects what is not a number or
\* is below 0.0001
MoneySchemaAccepts(price) ==
  /\ price.kind \in {"string", "number"}
  /\ price.numeric
  /\ price.tenMillionths >= 1000

\* Number.prototype.toString of a number of tenths, below 10^9: the digits of
\* the whole part, then the point and the tenth when there is one
NumberToString(tenths) ==
  LET whole == tenths \div 10
      len == CHOOSE l \in 1..9 : whole < 10 ^ l /\ (l = 1 \/ whole >= 10 ^ (l - 1))
      digits == [i \in 1..len |-> 48 + ((whole \div (10 ^ (len - i))) % 10)]
  IN IF tenths % 10 = 0 THEN digits ELSE digits \o <<46, 48 + (tenths % 10)>>

\* processPriceToAtomicAmount: a money price is parsed and multiplied by
\* 10 ** decimals, the product written with toString; a token amount is
\* passed on as it is.  The product is computed exactly here, the rounding
\* of the floating-point multiplication is left out.
ProcessPriceToAtomicAmount(price, decimals) ==
  IF price.kind = "token"
  THEN [error |-> FALSE, maxAmountRequired |-> price.amount]
  ELSE IF ~MoneySchemaAccepts(price)
       THEN [error |-> TRUE, maxAmountRequired |-> <<>>]
       ELSE [error |-> FALSE,
             maxAmountRequired |->
               NumberToString(IF decimals >= 6
                              THEN price.tenMillionths * (10 ^ (decimals - 6))
                              ELSE price.tenMillionths \div (10 ^ (6 - decimals)))]

\* getDefaultAsset: USDC has six decimals on every network
DefaultAssetDecimals == 6

\* Prices of a route: money below, at and above the minimum, with four to
\* seven decimals, a string that is no number, and a token amount
PriceInputs ==
  [fn : {"processPriceToAtomicAmount"}, kind : {"string", "number"},
   numeric : BOOLEAN, amount : {<<>>},
   tenMillionths : {0, 999, 1000, 1001, 1004, 1005, 1010, 1234, 18000, 18005,
                    100000, 10000000, 11000000, 40200000}]
  \cup {[fn |-> "processPriceToAtomicAmount", kind |-> "token", numeric |-> FALSE,
         amount |-> <<49, 56, 48, 48>>, tenMillionths |-> 0]}

\* EvmNetworkToChainId and SvmNetworkToChainId, for the networks used here
NetworkToChainId == ("base" :> 8453) @@ ("solana" :> 101) @@ ("solana-devnet" :> 103)

\* A lookup that takes the devnet for the main network
GetNetworkIdOfMainnet(network) ==
  IF network = "solana-devnet" THEN 101 ELSE NetworkToChainId[network]

\* getNetworkId
GetNetworkId(network) == NetworkToChainId[network]

\* getUsdcChainConfigForChain: config[chainId], the USDC of the chain
GetUsdcChainConfigForChain(chainId) ==
  CASE chainId = 101 -> [usdcAddress |-> "EPjFWdd5AufqSSqeM2qN1xzybapC8G4wEGGkZwyTDt1v"]
    [] chainId = 103 -> [usdcAddress |-> "4zMMC9srt5Ri5X14GAgXhaHii3GnPAEERYPJgZJDncDU"]
    [] chainId = 8453 -> [usdcAddress |-> "0x833589fCD6eDb6E08f4c7C32D4f71b54bdA02913"]

\* The requirements of a list that are accepted for the networks asked for:
\* every one when no network is given (network = <<>>)
BroadlyAcceptedPaymentRequirements(paymentRequirements, network) ==
  LET isExpectedChain(requirement) ==
        network = <<>> \/ \E i \in DOMAIN network : network[i] = requirement.network
  IN SelectSeq(paymentRequirements, isExpectedChain)

\* selectPaymentRequirements, the default selector: the requirements on base
\* go to the front, the list is filtered by network, and the first
\* requirement in the asset of its network's USDC is returned; without one
\* the first of the filtered list, without that the first of the list
SelectPaymentRequirements(paymentRequirements, network) ==
  LET onBase(requirement) == requirement.network = "base"
      offBase(requirement) == requirement.network # "base"
      sorted == SelectSeq(paymentRequirements, onBase)
                  \o SelectSeq(paymentRequirements, offBase)
      broadlyAccepted == BroadlyAcceptedPaymentRequirements(sorted, network)
      isUsdc(requirement) ==
        requirement.asset
          = GetUsdcChainConfigForChain(GetNetworkId(requirement.network)).usdcAddress
      usdcRequirements == SelectSeq(broadlyAccepted, isUsdc)
  IN IF usdcRequirements # <<>> THEN usdcRequirements[1]
     ELSE IF broadlyAccepted # <<>> THEN broadlyAccepted[1]
     ELSE sorted[1]

\* maxValue when the caller gives none: 0.1 USDC in atomic units
DefaultMaxValue == 100000

ExceedsMaximum == "Payment amount exceeds maximum allowed"

\* A wrapper that pays whatever is asked
WrapFetchWithPaymentUnchecked(input) ==
  [threw |-> FALSE, message |-> "", paymentCreated |-> input.status = 402,
   retriedWithPayment |-> input.status = 402]

\* One call of the fetch that wrapFetchWithPayment returns: a response that
\* is no 402 is returned as it is; for a 402 a requirement is selected, the
\* call throws when it asks for more than maxValue, and otherwise the payment
\* is created and signed and the request sent again with X-PAYMENT
WrapFetchWithPayment(input) ==
  LET maxValue == IF input.maxValue = <<>> THEN DefaultMaxValue ELSE input.maxValue[1]
      selected == SelectPaymentRequirements(input.paymentRequirements, input.network)
  IN IF input.status # 402
     THEN [threw |-> FALSE, message |-> "", paymentCreated |-> FALSE,
           retriedWithPayment |-> FALSE]
     ELSE IF selected.maxAmountRequired > maxValue
          THEN [threw |-> TRUE, message |-> ExceedsMaximum, paymentCreated |-> FALSE,
                retriedWithPayment |-> FALSE]
          ELSE [threw |-> FALSE, message |-> "", paymentCreated |-> TRUE,
                retriedWithPayment |-> TRUE]

\* The requirements a 402 lists: on three networks, in the USDC of any of
\* them or in another token
AcceptedRequirements(amounts) ==
  [network : {"base", "solana", "solana-devnet"},
   asset : {"EPjFWdd5AufqSSqeM2qN1xzybapC8G4wEGGkZwyTDt1v",
            "4zMMC9srt5Ri5X14GAgXhaHii3GnPAEERYPJgZJDncDU", "SomeNonUsdcTokenAddress"},
   maxAmountRequired : amounts]

\* The networks a signer asks the selector for: none, one, the Solana pair
SignerNetworks == {<<>>, <<"solana">>, <<"solana", "solana-devnet">>}

\* Lists of one to three requirements of one amount, in every order
SelectorInputs ==
  LET R == AcceptedRequirements({1000})
  IN [fn : {"selectPaymentRequirements"}, network : SignerNetworks,
      paymentRequirements : {<<a>> : a \in R} \cup (R \X R) \cup (R \X R \X R)]

\* Responses to the first request: a 200, or a 402 listing one or two
\* requirements below, at and above the maxima
WrapperInputs ==
  LET R == AcceptedRequirements({1000, 50001, 100000, 100001})
  IN [fn : {"wrapFetchWithPayment"}, status : {200, 402},
      maxValue : {<<>>, <<50000>>}, network : {<<>>, <<"solana", "solana-devnet">>},
      paymentRequirements : {<<a>> : a \in R} \cup (R \X R)]

\* The payloads handed to encodePayment
EvmAuthorization(value) ==
  <<Str(<<48, 120>> \o [i \in 1..40 |-> 49]), Str(<<48, 120>> \o [i \in 1..40 |-> 50]),
    value, Str(<<48>>), Str(<<57, 57>>), Str(<<48, 120>> \o [i \in 1..64 |-> 98])>>

PaymentPayloads ==
  [x402Version : {Num(<<49>>), Num(<<50>>)},
   scheme : {Str(ExactUnits), Str(<<120>>)},
   network : {Str(SolanaDevnetUnits), Str(SolanaUnits), Str(BaseSepoliaUnits), Str(<<120>>)},
   transaction : {Undefined, Str(<<>>), Str(<<81, 85, 74, 68>>), Str(<<81, 85, 73, 61>>),
                  Str(<<81, 81, 61, 61>>), Str(<<81, 33>>), Str(<<81, 233>>),
                  Str(<<81, 8364>>)},
   signature : {Undefined, Str(<<48, 120, 97, 97>>)},
   authorization : {<<>>, EvmAuthorization(Str(<<49, 48, 48>>)),
                    EvmAuthorization(BigIntValue(<<49, 48, 48>>))}]

HelperInputs ==
  [fn : {"encodePayment"}, payment : PaymentPayloads] \cup RouteInputs \cup PriceInputs
    \cup SelectorInputs \cup WrapperInputs

HelperInit ==
  /\ vin \in HelperInputs
  /\ vout = <<>>
  /\ req = Null /\ handler = Null /\ mwpc = "idle" /\ hpc = "idle" /\ res = Null
  /\ verifyResult = "none" /\ settleResult = "none"
  /\ calls = <<>> /\ chain = Null

\* The client writes the X-PAYMENT header
EncodePaymentCall ==
  /\ vin.fn = "encodePayment" /\ vout = <<>>
  /\ vout' = <<EncodePayment(vin.payment)>>
  /\ UNCHANGED <<vin, mwVars, stVars>>

\* The server reads the header the client wrote
DecodePaymentCall ==
  /\ vin.fn = "encodePayment" /\ Len(vout) = 1 /\ ~vout[1].threw
  /\ vout' = Append(vout, DecodePayment(vout[1].value))
  /\ UNCHANGED <<vin, mwVars, stVars>>

\* The middleware looks the request up in its routes
FindMatchingRouteCall ==
  /\ vin.fn = "findMatchingRoute" /\ vout = <<>>
  /\ vout' = <<FindMatchingRoute(vin.routePatterns, vin.path, vin.method)>>
  /\ UNCHANGED <<vin, mwVars, stVars>>

\* The middleware prices the route for the 402 and for verify
ProcessPriceCall ==
  /\ vin.fn = "processPriceToAtomicAmount" /\ vout = <<>>
  /\ vout' = <<ProcessPriceToAtomicAmount(vin, DefaultAssetDecimals)>>
  /\ UNCHANGED <<vin, mwVars, stVars>>

\* The client selects among the requirements of a 402
SelectPaymentRequirementsCall ==
  /\ vin.fn = "selectPaymentRequirements" /\ vout = <<>>
  /\ vout' = <<SelectPaymentRequirements(vin.paymentRequirements, vin.network)>>
  /\ UNCHANGED <<vin, mwVars, stVars>>

\* The client fetches through the wrapper
WrapFetchWithPaymentCall ==
  /\ vin.fn = "wrapFetchWithPayment" /\ vout = <<>>
  /\ vout' = <<WrapFetchWithPayment(vin)>>
  /\ UNCHANGED <<vin, mwVars, stVars>>

HelperNext ==
  \/ EncodePaymentCall
  \/ DecodePaymentCall
  \/ FindMatchingRouteCall
  \/ ProcessPriceCall
  \/ SelectPaymentRequirementsCall
  \/ WrapFetchWithPaymentCall

HelperSpec == HelperInit /\ [][HelperNext]_vars

(***************************************************************************)
(* Claims about the middleware                                             *)
(***************************************************************************)

HandlerInvoked == hpc # "idle"

HandlerFinished == hpc = "done"

SettleInvoked == settleResult # "none"

SettleAttempted == settleResult \in {"success", "failure", "throws"}

PaidRequest == req.matched /\ verifyResult = "valid"

HandlerBytesOnWire == \E i \in DOMAIN res.wire : res.wire[i] \in HandlerChunks

\* C1: if the downstream handler of a paid request finishes with status
\* >= 400, settle is never invoked for that request.
C1_NoSettleOnFailedHandler ==
  (PaidRequest /\ HandlerFinished /\ handler.status >= SettleThreshold)
    => ~SettleInvoked

\* C2: on a matched route the handler is invoked only after the X-PAYMENT
\* header decoded, matched a requirement and verify answered isValid = true;
\* in every other case (no header, malformed header, no matching requirement,
\* verify invalid, verify throws) the handler is never invoked.
C2_VerifyBeforeHandler ==
  (req.matched /\ HandlerInvoked)
    => /\ DecodePaymentOk(req.header)
       /\ FindMatchingPaymentRequirements(req)
       /\ verifyResult = "valid"

C2_Witness == req.matched /\ HandlerInvoked /\ verifyResult = "valid"

\* C3: settle is invoked only after the downstream handler has finished
\* producing its response, also when the handler completes asynchronously.
C3_HandlerBeforeSettle == SettleInvoked => HandlerFinished

\* C4: on a paid request whose handler status is < 400, no byte of the
\* handler's response reaches the client before settle has returned or thrown.
C4_SettleBeforeFlush ==
  (PaidRequest /\ handler.status < SettleThreshold /\ HandlerBytesOnWire)
    => SettleAttempted

\* The header block had been flushed by the handler before settle answered
HandlerFlushedHeaders ==
  \E i \in DOMAIN res.wire : res.wire[i] = "handler_stream_chunk"

\* The client received status 402 with the JSON body of the middleware
ClientReceived402Json ==
  /\ res.sentStatus = PaymentRequiredStatus
  /\ res.wire = <<"json_402">>

\* C13: if settle returns success = false, or throws before the response
\* headers have been sent, the client receives HTTP 402 with the JSON body
\* carrying the error and the accepts list.
C13_FailedSettleAnswers402 ==
  (mwpc = "done"
     /\ \/ settleResult = "failure"
        \/ settleResult = "throws" /\ ~HandlerFlushedHeaders)
    => ClientReceived402Json

\* C14: the X-PAYMENT-RESPONSE header is set on the response only if settle
\* returned success = true; it is absent when settlement failed or was
\* skipped.
C14_ResponseHeaderOnlyOnSuccess ==
  res.xPaymentResponse # Null => settleResult = "success"

\* What the client receives when the handler's first call of res.end is
\* carried out: the chunk of that call, after the chunk the handler wrote
FirstEndDelivers(h) ==
  IF h.style = "stream" THEN <<"handler_stream_chunk">> ELSE <<"handler_body">>

\* C27: after a successful settlement the client has received exactly the
\* bytes of the handler's first call of res.end: the interceptor kept that
\* call and the middleware replayed it on the real res.end.
C27_FirstEndReplayed ==
  (PaidRequest /\ HandlerFinished /\ settleResult = "success" /\ mwpc = "done")
    => res.finished /\ res.wire = FirstEndDelivers(handler)

\* Settlement failed: settle answered success = false, or threw while the
\* header block had not been flushed
SettlementFailed ==
  /\ PaidRequest
  /\ \/ settleResult = "failure"
     \/ settleResult = "throws" /\ ~HandlerFlushedHeaders

\* C37: when settlement fails (success = false, or an exception before the
\* headers were sent) nothing of the handler's response is delivered to the
\* client, and the only body sent for the request is the 402 error body.
C37_FailedSettleDeliversOnly402 ==
  SettlementFailed
    => /\ ~HandlerBytesOnWire
       /\ res.wire \in {<<>>, <<"json_402">>}
       /\ mwpc = "done" => res.wire = <<"json_402">> /\ res.sentStatus = PaymentRequiredStatus

\* C40: for every paid request the real res.end is called at most once,
\* whichever branch is taken: handler status >= 400, settlement success,
\* settlement failure answered by a 402, settlement exception.
C40_RealEndAtMostOnce == PaidRequest => res.realEnds <= 1

\* A request to a protected route whose requirements the middleware can
\* build, sent without an X-PAYMENT header
UnpaidRequest == req.matched /\ RouteConfigOk(req) /\ req.header.kind = "none"

\* C25: a request to a protected route without an X-PAYMENT header is
\* answered with HTTP 402, for a client that is no browser with the JSON body
\* whose error is "X-PAYMENT header is required" and whose accepts are the
\* requirements, and neither verify nor the handler nor settle is invoked.
C25_UnpaidRequestChallenged ==
  UnpaidRequest
    => /\ verifyResult = "none" /\ ~HandlerInvoked /\ ~SettleInvoked
       /\ mwpc \in {"start", "done"}
       /\ mwpc = "done"
            => /\ res.sentStatus = PaymentRequiredStatus
               /\ res.finished
               /\ ~req.browser => res.wire = <<"json_402_header_required">>
               /\ req.browser => res.wire = <<"paywall_html">>

\* The X-PAYMENT header is present and does not decode to a payload
MalformedHeader == req.header.kind # "none" /\ ~DecodePaymentOk(req.header)

\* The payload names a scheme or a network other than the route's requirement
NoRequirementMatches ==
  /\ req.header.kind = "payload"
  /\ req.header.scheme # "exact" \/ req.header.network # req.network

\* One of the protocol failures of a request that carries an X-PAYMENT header
ProtocolFailure ==
  /\ req.matched /\ RouteConfigOk(req)
  /\ \/ MalformedHeader
     \/ NoRequirementMatches
     \/ verifyResult \in {"invalid", "throws"}

\* C26: a malformed X-PAYMENT header, a payload that matches no requirement,
\* a verify that answers isValid = false and a verify that throws each end in
\* HTTP 402 with the JSON body of the error and the accepts list; the handler
\* is not invoked and no settlement is attempted.
C26_ProtocolFailureAnswers402 ==
  ProtocolFailure
    => /\ ~SettleInvoked /\ ~HandlerInvoked
       /\ res.xPaymentResponse = Null
       /\ (MalformedHeader \/ NoRequirementMatches) => verifyResult = "none"
       /\ mwpc \in {"start", "done"}
       /\ mwpc = "done" => ClientReceived402Json /\ res.finished

C26_Witness ==
  /\ ProtocolFailure
  /\ ~MalformedHeader
  /\ NoRequirementMatches
  /\ mwpc = "done"
  /\ ClientReceived402Json

C25_Witness ==
  /\ UnpaidRequest
  /\ ~req.browser
  /\ mwpc = "done"
  /\ res.wire = <<"json_402_header_required">>


(***************************************************************************)
(* Claims about verify                                                     *)
(***************************************************************************)

Verified == vout # <<>>

\* The transaction decodes and has a number of instructions the introspector
\* looks into
Inspected(in) ==
  /\ in.payload.transaction.decodes
  /\ Len(in.payload.transaction.instructions) \in {3, 4}

\* The last instruction, where the transfer is expected
TransferOf(in) ==
  in.payload.transaction.instructions[Len(in.payload.transaction.instructions)]

\* The last instruction is a TransferChecked of one of the two token programs
HasTransferChecked(in) ==
  /\ Inspected(in)
  /\ TransferOf(in).programAddress \in {TOKEN_PROGRAM_ADDRESS, TOKEN_2022_PROGRAM_ADDRESS}
  /\ ~TransferOf(in).bare
  /\ TransferOf(in).disc = TransferCheckedDiscriminator
  /\ TransferOf(in).wellFormed

\* ATA(mint = asset, owner = payTo, P) with P the program of the transfer
ClaimedAta(in) ==
  <<"ata", in.paymentRequirements.asset, in.paymentRequirements.payTo,
    TransferOf(in).programAddress>>

\* The transaction would be accepted were its amount the required amount
PassesOtherChecks(in) ==
  /\ VerifySchemesAndNetworks(in.payload, in.paymentRequirements) = Ok
  /\ HasTransferChecked(in)
  /\ TransactionIntrospection(
       in.payload,
       [in.paymentRequirements EXCEPT !.maxAmountRequired = TransferOf(in).amount],
       in.accounts) = Ok

\* C5: for a transaction that passes every other check, the introspector
\* accepts iff the TransferChecked amount equals maxAmountRequired (verify is
\* then valid exactly when the simulation succeeds); an overpayment and an
\* underpayment are both rejected with ..._amount_mismatch.
C5_AmountExact ==
  (Verified /\ PassesOtherChecks(vin))
    => IF TransferOf(vin).amount = vin.paymentRequirements.maxAmountRequired
       THEN /\ vout[1].isValid <=> vin.simulation = "ok"
            /\ vout[1].invalidReason # ErrAmountMismatch
       ELSE /\ ~vout[1].isValid
            /\ vout[1].invalidReason = ErrAmountMismatch

C5_Witness ==
  /\ Verified
  /\ PassesOtherChecks(vin)
  /\ TransferOf(vin).amount > vin.paymentRequirements.maxAmountRequired
  /\ vout[1].invalidReason = ErrAmountMismatch

\* Every check that runs before the destination of the transfer is compared
\* has passed
ReachesDestinationCheck(in) ==
  /\ VerifySchemesAndNetworks(in.payload, in.paymentRequirements) = Ok
  /\ HasTransferChecked(in)
  /\ VerifyComputeLimitInstruction(in.payload.transaction.instructions[1]) = Ok
  /\ VerifyComputePriceInstruction(in.payload.transaction.instructions[2]) = Ok
  /\ Len(in.payload.transaction.instructions) = 4
       => VerifyCreateATAInstruction(in.payload.transaction.instructions[3],
                                     in.paymentRequirements) = Ok

\* C6 as stated: verify accepts only if the TransferChecked destination is
\* ATA(asset, payTo, P), and a TransferChecked to any other destination is
\* rejected with ..._transfer_to_incorrect_ata.
C6_AnyOtherDestinationIncorrectAta ==
  /\ (Verified /\ vout[1].isValid)
       => HasTransferChecked(vin) /\ TransferOf(vin).destination = ClaimedAta(vin)
  /\ (Verified /\ HasTransferChecked(vin)
        /\ TransferOf(vin).destination # ClaimedAta(vin))
       => ~vout[1].isValid /\ vout[1].invalidReason = ErrIncorrectAta

\* C6: verify accepts only if the TransferChecked destination is
\* ATA(asset, payTo, P); a transfer to any other destination is never
\* accepted, and it is rejected with ..._transfer_to_incorrect_ata when every
\* check that runs before the destination check has passed.
C6_DestinationIsPayToAta ==
  /\ (Verified /\ vout[1].isValid)
       => HasTransferChecked(vin) /\ TransferOf(vin).destination = ClaimedAta(vin)
  /\ (Verified /\ HasTransferChecked(vin)
        /\ TransferOf(vin).destination # ClaimedAta(vin))
       => ~vout[1].isValid
  /\ (Verified /\ ReachesDestinationCheck(vin)
        /\ TransferOf(vin).destination # ClaimedAta(vin))
       => vout[1].invalidReason = ErrIncorrectAta

C6_Witness ==
  /\ Verified
  /\ ReachesDestinationCheck(vin)
  /\ TransferOf(vin).destination # ClaimedAta(vin)
  /\ vout[1].invalidReason = ErrIncorrectAta

\* Some instruction of the payload is a SetComputeUnitPrice above the cap
HasPriceAboveCap(in) ==
  /\ in.payload.transaction.decodes
  /\ \E i \in DOMAIN in.payload.transaction.instructions :
       LET ix == in.payload.transaction.instructions[i]
       IN /\ ix.programAddress = COMPUTE_BUDGET_PROGRAM_ADDRESS
          /\ ~ix.bare
          /\ ix.disc = SetComputeUnitPriceDiscriminator
          /\ ix.wellFormed
          /\ ix.microLamports > MaxComputeUnitPrice

\* Every check that runs before the compute-unit price is compared has passed
ReachesPriceCheck(in) ==
  /\ VerifySchemesAndNetworks(in.payload, in.paymentRequirements) = Ok
  /\ Inspected(in)
  /\ VerifyComputeLimitInstruction(in.payload.transaction.instructions[1]) = Ok

\* C7 as stated: any payload whose SetComputeUnitPrice instruction encodes
\* more than 5 000 000 microLamports is rejected with
\* ..._compute_price_instruction_too_high.
C7_AnyPriceAboveCapTooHigh ==
  (Verified /\ HasPriceAboveCap(vin))
    => ~vout[1].isValid /\ vout[1].invalidReason = ErrComputePriceTooHigh

\* C7: a payload whose SetComputeUnitPrice instruction encodes more than
\* 5 000 000 microLamports is never accepted, so it is never signed by the
\* fee payer; the reason is ..._compute_price_instruction_too_high when the
\* scheme, network, decoding, instruction count and compute-limit checks, which
\* run first, have passed.
C7_PriceCap ==
  /\ (Verified /\ HasPriceAboveCap(vin)) => ~vout[1].isValid
  /\ (Verified /\ HasPriceAboveCap(vin) /\ ReachesPriceCheck(vin))
       => vout[1].invalidReason = ErrComputePriceTooHigh

C7_Witness ==
  /\ Verified
  /\ HasPriceAboveCap(vin)
  /\ ReachesPriceCheck(vin)
  /\ vout[1].invalidReason = ErrComputePriceTooHigh

\* The reason of the first check, in the order given, that the input fails:
\* scheme and network, decoding, instruction count, ComputeUnitLimit,
\* ComputeUnitPrice, the create-ATA instruction and the identification of the
\* TransferChecked (create-ATA first or second), destination, account
\* existence, amount, simulation.  Ok when it fails none.
FirstViolation(in, createBeforeTransfer) ==
  LET ixs == in.payload.transaction.instructions
      schemes == VerifySchemesAndNetworks(in.payload, in.paymentRequirements)
      limit == VerifyComputeLimitInstruction(ixs[1])
      price == VerifyComputePriceInstruction(ixs[2])
      create == IF Len(ixs) = 4
                THEN VerifyCreateATAInstruction(ixs[3], in.paymentRequirements)
                ELSE Ok
      transfer == GetValidatedTransferCheckedInstruction(TransferOf(in))
      first == IF createBeforeTransfer THEN create ELSE transfer
      second == IF createBeforeTransfer THEN transfer ELSE create
  IN IF schemes # Ok THEN schemes
     ELSE IF ~in.payload.transaction.decodes THEN ErrTransaction
     ELSE IF Len(ixs) \notin {3, 4} THEN ErrInstructionsLength
     ELSE IF limit # Ok THEN limit
     ELSE IF price # Ok THEN price
     ELSE IF first # Ok THEN first
     ELSE IF second # Ok THEN second
     ELSE IF TransferOf(in).destination # ClaimedAta(in) THEN ErrIncorrectAta
     ELSE IF TransferOf(in).source \notin in.accounts THEN ErrSenderAtaNotFound
     ELSE IF ClaimedAta(in) \notin in.accounts /\ Len(ixs) = 3
          THEN ErrReceiverAtaNotFound
     ELSE IF TransferOf(in).amount # in.paymentRequirements.maxAmountRequired
          THEN ErrAmountMismatch
     ELSE IF in.simulation = "err" THEN ErrSimulationFailed
     ELSE IF in.simulation = "rpc_error" THEN "rpc_error"
     ELSE Ok

\* verify answered as the first violation demands: valid when there is none,
\* otherwise invalid with its reason (unexpected_verify_error when the
\* exception carries no reason of the protocol)
AnswersFirstViolation(violation) ==
  IF violation = Ok
  THEN vout[1].isValid
  ELSE /\ ~vout[1].isValid
       /\ vout[1].invalidReason = IF violation \in ErrorReasons THEN violation
                                  ELSE ErrUnexpectedVerify

\* C15 as stated: the checks run in the documented order (scheme/network,
\* decode, instruction count, ComputeUnitLimit, ComputeUnitPrice,
\* TransferChecked program and discriminator, create-ATA, destination, account
\* existence, amount, simulation) and verify answers with the reason of the
\* earliest violated check in that order.
C15_DocumentedOrder == Verified => AnswersFirstViolation(FirstViolation(vin, FALSE))

\* C15 amended: the same with the create-ATA instruction of a 4-instruction
\* transaction checked before the program and discriminator of the
\* TransferChecked.
C15_CodeOrder == Verified => AnswersFirstViolation(FirstViolation(vin, TRUE))

C15_Witness ==
  /\ Verified
  /\ Len(vin.payload.transaction.instructions) = 4
  /\ FirstViolation(vin, TRUE) = ErrCreateAtaPayee
  /\ FirstViolation(vin, FALSE) = ErrNotATransfer
  /\ TransferOf(vin).destination # ClaimedAta(vin)
  /\ vout[1].invalidReason = ErrCreateAtaPayee

\* C16: a decoded transaction whose number of instructions is neither 3 nor 4
\* is rejected by the introspector with ..._instructions_length whatever its
\* instructions are, and that is the reason verify answers with.
C16_LengthRejected ==
  (Verified /\ vin.payload.transaction.decodes
     /\ Len(vin.payload.transaction.instructions) \notin {3, 4})
    => /\ TransactionIntrospection(vin.payload, vin.paymentRequirements, vin.accounts)
            = ErrInstructionsLength
       /\ VerifySchemesAndNetworks(vin.payload, vin.paymentRequirements) = Ok
            => ~vout[1].isValid /\ vout[1].invalidReason = ErrInstructionsLength

C16_Witness ==
  /\ Verified
  /\ Len(vin.payload.transaction.instructions) = 5
  /\ VerifyComputeLimitInstruction(vin.payload.transaction.instructions[1]) = Ok
  /\ VerifyComputePriceInstruction(vin.payload.transaction.instructions[2])
       = ErrComputePriceTooHigh
  /\ vout[1].invalidReason = ErrInstructionsLength

\* A 4-instruction transaction whose checks before the create-ATA check pass
ReachesCreateAtaCheck(in) ==
  /\ VerifySchemesAndNetworks(in.payload, in.paymentRequirements) = Ok
  /\ in.payload.transaction.decodes
  /\ Len(in.payload.transaction.instructions) = 4
  /\ VerifyComputeLimitInstruction(in.payload.transaction.instructions[1]) = Ok
  /\ VerifyComputePriceInstruction(in.payload.transaction.instructions[2]) = Ok

\* The instruction has accounts and data of the layout of CreateAssociatedToken
ParsesAsCreateAssociatedToken(instruction) ==
  ~instruction.bare /\ instruction.wellFormed

\* C17: in a 4-instruction transaction the third instruction must parse as
\* CreateAssociatedToken (else ..._create_ata_instruction), its owner must be
\* payTo (else ..._incorrect_payee) and its mint the asset (else
\* ..._incorrect_asset); the transfer that is then verified is the fourth
\* instruction.
C17_CreateAtaChecked ==
  (Verified /\ ReachesCreateAtaCheck(vin))
    => LET create == vin.payload.transaction.instructions[3]
           parses == ParsesAsCreateAssociatedToken(create)
           payee == create.owner = vin.paymentRequirements.payTo
           asset == create.mint = vin.paymentRequirements.asset
           reason == vout[1].invalidReason
       IN /\ ~parses => reason = ErrCreateAta
          /\ (parses /\ ~payee) => reason = ErrCreateAtaPayee
          /\ (parses /\ payee /\ ~asset) => reason = ErrCreateAtaAsset
          /\ (parses /\ payee /\ asset)
               => /\ reason \notin {ErrCreateAta, ErrCreateAtaPayee, ErrCreateAtaAsset}
                  /\ reason = Verify(
                       [vin.payload EXCEPT !.transaction.instructions =
                          <<@[1], @[2], @[4]>>],
                       vin.paymentRequirements,
                       vin.accounts \cup {ClaimedAta(vin)}, vin.simulation).invalidReason
          /\ vout[1].isValid
               => /\ parses /\ payee /\ asset
                  /\ HasTransferChecked(vin)
                  /\ TransferOf(vin) = vin.payload.transaction.instructions[4]
                  /\ TransferOf(vin).destination = ClaimedAta(vin)

C17_Witness ==
  /\ Verified
  /\ ReachesCreateAtaCheck(vin)
  /\ vin.payload.transaction.instructions[3].programAddress
       = ASSOCIATED_TOKEN_PROGRAM_ADDRESS
  /\ vin.payload.transaction.instructions[3].owner = vin.paymentRequirements.payTo
  /\ vin.payload.transaction.instructions[3].mint # vin.paymentRequirements.asset
  /\ HasTransferChecked(vin)
  /\ vout[1].invalidReason = ErrCreateAtaAsset

\* Every check that runs before the accounts are fetched has passed
ReachesAccountCheck(in) ==
  /\ ReachesDestinationCheck(in)
  /\ TransferOf(in).destination = ClaimedAta(in)

\* C18: the source token account must exist (else ..._sender_ata_not_found);
\* the destination ATA must exist (else ..._receiver_ata_not_found) unless the
\* transaction carries the create-ATA instruction: a missing destination ATA
\* is let through exactly when the transaction has four instructions.
C18_AccountExistence ==
  (Verified /\ ReachesAccountCheck(vin))
    => LET sourceExists == TransferOf(vin).source \in vin.accounts
           destinationExists == ClaimedAta(vin) \in vin.accounts
           creates == Len(vin.payload.transaction.instructions) = 4
           reason == vout[1].invalidReason
           rest == /\ TransferOf(vin).amount = vin.paymentRequirements.maxAmountRequired
                   /\ vin.simulation = "ok"
       IN /\ ~sourceExists => ~vout[1].isValid /\ reason = ErrSenderAtaNotFound
          /\ sourceExists => reason # ErrSenderAtaNotFound
          /\ (sourceExists /\ ~destinationExists /\ ~creates)
               => ~vout[1].isValid /\ reason = ErrReceiverAtaNotFound
          /\ (sourceExists /\ (destinationExists \/ creates))
               => /\ reason # ErrReceiverAtaNotFound
                  /\ vout[1].isValid <=> rest

C18_Witness ==
  /\ Verified
  /\ ReachesAccountCheck(vin)
  /\ Len(vin.payload.transaction.instructions) = 4
  /\ TransferOf(vin).source \in vin.accounts
  /\ ClaimedAta(vin) \notin vin.accounts
  /\ vout[1].isValid

\* C23: verify answers with a response whatever fails: a failure of the
\* scheme and network check, of the decoding, of the introspection, of the
\* RPC or of the simulation gives isValid = false with a reason of
\* ErrorReasons, and a failure whose error is none of the known reasons gives
\* unexpected_verify_error.
C23_VerifyDoesNotThrow ==
  Verified
    => LET violation == FirstViolation(vin, TRUE)
       IN /\ vout[1].isValid <=> violation = Ok
          /\ violation # Ok => vout[1].invalidReason \in ErrorReasons
          /\ (violation # Ok /\ violation \notin ErrorReasons)
               => vout[1].invalidReason = ErrUnexpectedVerify
          /\ vin.simulation = "rpc_error" => ~vout[1].isValid

C23_Witness ==
  /\ Verified
  /\ vin.simulation = "rpc_error"
  /\ ~vout[1].isValid
  /\ vout[1].invalidReason = ErrUnexpectedVerify

\* verify has been called a second time on the same input
Replayed == Len(vout) = 2

C29_PayerIsTransferAuthority ==
  (Verified /\ vin.payload.transaction.decodes /\ HasTransferChecked(vin))
    => vout[1].payer = TransferOf(vin).authority

\* The payload is what the client builder makes from the requirements on the
\* chain state the facilitator sees
BuiltFor(in) ==
  /\ in.payload.scheme = in.paymentRequirements.scheme
  /\ in.payload.network = in.paymentRequirements.network
  /\ in.payload.transaction.decodes
  /\ \E b \in Builds :
       /\ b[1] = in.paymentRequirements.maxAmountRequired
       /\ b[3] = in.accounts
       /\ in.payload.transaction.instructions =
            CreateTransferTransactionMessage(Client, in.paymentRequirements, b[2], b[3])

\* C30: a payment built by the client builder from requirements R, with or
\* without the create-ATA instruction, passes the introspection against the
\* same R on the same account state; verify accepts it when the simulation
\* of the transaction succeeds.
C30_BuiltPaymentPassesIntrospection ==
  (Verified /\ BuiltFor(vin))
    => /\ TransactionIntrospection(vin.payload, vin.paymentRequirements,
                                   vin.accounts) = Ok
       /\ vin.simulation = "ok" => vout[1].isValid

\* A built payment of four instructions for a Token-2022 mint was accepted
C30_Witness ==
  /\ Verified /\ BuiltFor(vin)
  /\ Len(vin.payload.transaction.instructions) = 4
  /\ TransferOf(vin).programAddress = TOKEN_2022_PROGRAM_ADDRESS
  /\ vout[1].isValid


\* The iterations the polling loop of a measured call has begun
PollingRounds(c) == calls[c].sinceStart \div PollInterval + calls[c].polls

\* C34: in the polling fallback two successive iterations are 1000 ms apart,
\* whether or not a poll fails, so that one confirmation makes no more than
\* 60 000 / 1000 iterations.
C34_PollsSeparatedByInterval ==
  \A c \in DOMAIN calls :
    (calls[c].measured /\ calls[c].polled)
      => /\ calls[c].pollGaps \subseteq {PollInterval}
         /\ PollingRounds(c) <= PollingTimeout \div PollInterval

\* The transaction holds a TransferChecked of a token program whose
\* authority, or the owner of whose source account, is the fee payer
SpendsFacilitatorTokens(in) ==
  /\ in.payload.transaction.decodes
  /\ \E i \in DOMAIN in.payload.transaction.instructions :
       LET ix == in.payload.transaction.instructions[i]
       IN /\ ix.programAddress \in {TOKEN_PROGRAM_ADDRESS, TOKEN_2022_PROGRAM_ADDRESS}
          /\ ix.disc = TransferCheckedDiscriminator /\ ~ix.bare
          /\ \/ ix.authority = in.paymentRequirements.feePayer
             \/ ix.source[3] = in.paymentRequirements.feePayer

\* C38: verify rejects every transaction whose TransferChecked authority, or
\* the owner of whose source account, is the facilitator's fee payer, so
\* that the fee payer's signature never moves the facilitator's tokens.
C38_FacilitatorTokensNeverSpent ==
  (vout # <<>> /\ SpendsFacilitatorTokens(vin)) => \A i \in DOMAIN vout : ~vout[i].isValid

(***************************************************************************)
(* Claims about the codec, route matching, price conversion and the client *)
(***************************************************************************)

\* A payload the schema accepts as it is, stripping nothing, and whose
\* payload has the shape of its network family where that is EVM
WellFormedPayment(payment) ==
  /\ PaymentPayloadSchemaParse(payment) = Result(payment)
  /\ \/ payment.network.units \in SupportedSVMNetworkUnits
     \/ payment.authorization # <<>>

\* C31: for every well-formed PaymentPayload on a supported network,
\* encodePayment returns, decodePayment of its result returns, and what it
\* returns is structurally equal to the payload.
C31_RoundTrip ==
  (vin.fn = "encodePayment" /\ vout # <<>> /\ WellFormedPayment(vin.payment))
    => /\ ~vout[1].threw
       /\ Len(vout) = 2 => (~vout[2].threw /\ vout[2].value = vin.payment)

\* A Solana payload whose transaction ends in base64 padding made the trip
C31_Witness ==
  /\ vin.fn = "encodePayment" /\ Len(vout) = 2
  /\ WellFormedPayment(vin.payment)
  /\ vin.payment.network.units = SolanaDevnetUnits
  /\ vin.payment.transaction.units = <<81, 81, 61, 61>>
  /\ vout[2].value = vin.payment

\* C32: a request path that differs from a registered route's path only by
\* repeated slashes, letter case, trailing slashes, percent-encoding of its
\* characters, backslashes for slashes or an appended query or fragment
\* matches the route that the path itself matches; the route /a/b, when it
\* is registered for the request's verb, is matched by all of them.
C32_PathNormalization ==
  (vin.fn = "findMatchingRoute" /\ vout # <<>>)
    => /\ vout[1] = FindMatchingRoute(vin.routePatterns, vin.canonical, vin.method)
       /\ (vin.path \in PathVariants /\ vin.routePatterns[1].verb = <<42>>)
            => vout[1] = 1

\* An upper-case, percent-encoded, backslashed request with a trailing slash
\* and a query matched the route
C32_Witness ==
  /\ vin.fn = "findMatchingRoute" /\ vout # <<>>
  /\ vin.path = <<92, 37, 52, 49, 47, 47, 66, 47, 63, 37, 122>>
  /\ vin.routePatterns[1].verb = <<42>>
  /\ vout[1] = 1

\* The price was accepted as USD money and converted
PriceConverted ==
  /\ vin.fn = "processPriceToAtomicAmount" /\ vout # <<>>
  /\ vin.kind # "token" /\ ~vout[1].error

\* C33: for every accepted USD price, maxAmountRequired is dollars x
\* 10^decimals rounded half away from zero, written as a decimal integer
\* with no fraction (every character a digit).
C33_AtomicAmountIsRoundedInteger ==
  PriceConverted
    => /\ \A i \in DOMAIN vout[1].maxAmountRequired :
            vout[1].maxAmountRequired[i] \in 48..57
       /\ vout[1].maxAmountRequired
            = NumberToString(10 * ((vin.tenMillionths + 5) \div 10))

\* The maximum in force for a call of the wrapper
MaxAtomic == IF vin.maxValue = <<>> THEN 100000 ELSE vin.maxValue[1]

\* The wrapper was called, got a 402 and selected a requirement asking for
\* more than the maximum
AmountExceedsMaximum ==
  /\ vin.fn = "wrapFetchWithPayment" /\ vout # <<>> /\ vin.status = 402
  /\ SelectPaymentRequirements(vin.paymentRequirements, vin.network).maxAmountRequired
       > MaxAtomic

\* C35: when the selected requirement asks for more than maxAtomic (100 000
\* by default) the fetch wrapper creates and signs no payment and sends no
\* request with X-PAYMENT: it throws "Payment amount exceeds maximum allowed".
C35_NoPaymentAboveMaximum ==
  AmountExceedsMaximum
    => /\ vout[1].threw /\ vout[1].message = "Payment amount exceeds maximum allowed"
       /\ ~vout[1].paymentCreated /\ ~vout[1].retriedWithPayment

\* With the default maximum a requirement of 100 001 was refused although
\* the list held a cheaper requirement that was not selected
C35_Witness ==
  /\ AmountExceedsMaximum /\ vin.maxValue = <<>> /\ vout[1].threw
  /\ Len(vin.paymentRequirements) = 2
  /\ vin.paymentRequirements[2].maxAmountRequired = 1000

\* The USDC of a network, from the table of the chains
UsdcOf(network) ==
  CASE network = "solana" -> "EPjFWdd5AufqSSqeM2qN1xzybapC8G4wEGGkZwyTDt1v"
    [] network = "solana-devnet" -> "4zMMC9srt5Ri5X14GAgXhaHii3GnPAEERYPJgZJDncDU"
    [] network = "base" -> "0x833589fCD6eDb6E08f4c7C32D4f71b54bdA02913"

\* The positions of a list whose requirement passes the network filter and
\* is in the USDC of its network
UsdcPositions ==
  {i \in DOMAIN vin.paymentRequirements :
     /\ vin.network = <<>>
        \/ \E n \in DOMAIN vin.network : vin.network[n] = vin.paymentRequirements[i].network
     /\ vin.paymentRequirements[i].asset = UsdcOf(vin.paymentRequirements[i].network)}

\* C36: when the list, after the network filter, holds a requirement in the
\* USDC of its network, the default selector returns a requirement of the
\* list that passes the filter and is in the USDC of its network, in
\* whatever order the list is.
C36_SelectsUsdcWhenPresent ==
  (vin.fn = "selectPaymentRequirements" /\ vout # <<>> /\ UsdcPositions # {})
    => \E i \in UsdcPositions : vout[1] = vin.paymentRequirements[i]

\* The USDC requirement was last of three, behind a requirement on base and
\* one in another token on its own network, and was selected
C36_Witness ==
  /\ vin.fn = "selectPaymentRequirements" /\ vout # <<>>
  /\ UsdcPositions = {3}
  /\ vin.paymentRequirements[1].network = "base"
  /\ vin.paymentRequirements[2].network = "solana-devnet"
  /\ vin.paymentRequirements[3].network = "solana-devnet"
  /\ vin.network = <<>>
  /\ vout[1] = vin.paymentRequirements[3]

(***************************************************************************)
(* Claims about settle                                                     *)
(***************************************************************************)

Settled(c) == calls[c].pc = "done" /\ calls[c].result[1].success

VerifiedInvalid(c) ==
  calls[c].verifyResponse # <<>> /\ ~calls[c].verifyResponse[1].isValid

\* C8: two distinct successful settlements never report the same transaction
\* signature: the same payload presented in two requests, one after the other
\* or concurrently, is settled successfully at most once.
C8_NoReplay ==
  \A c, d \in DOMAIN calls :
    (c # d /\ Settled(c) /\ Settled(d))
      => calls[c].result[1].transaction # calls[d].result[1].transaction

\* C9: settle runs verify before anything else; when verify answers invalid
\* the call submits nothing and returns success = false, errorReason = the
\* reason of verify (the reason of the introspection when that is what fails)
\* and transaction = "".
C9_InvalidVerifySubmitsNothing ==
  \A c \in DOMAIN calls :
    /\ calls[c].sendCount > 0
         => calls[c].verifyResponse # <<>> /\ calls[c].verifyResponse[1].isValid
    /\ VerifiedInvalid(c)
         => /\ calls[c].sendCount = 0
            /\ calls[c].pc = "done"
            /\ calls[c].result[1] =
                 [success |-> FALSE,
                  errorReason |-> calls[c].verifyResponse[1].invalidReason,
                  transaction |-> ""]
    /\ LET introspection == TransactionIntrospection(calls[c].payload, SettleRequirements,
                                                     SettleAccounts)
       IN (calls[c].pc # "verify" /\ introspection # Ok)
            => /\ calls[c].sendCount = 0
               /\ calls[c].result[1].errorReason = introspection

C9_Witness ==
  \E c \in DOMAIN calls :
    /\ VerifiedInvalid(c)
    /\ calls[c].result[1].errorReason = ErrAmountMismatch
    /\ calls[c].result[1].transaction = ""

\* The transaction of a call passes every check of the introspection
PassesIntrospection(c) ==
  TransactionIntrospection(calls[c].payload, SettleRequirements, SettleAccounts) = Ok

\* C39: the facilitator's key signs the transaction of a call only after the
\* transaction passed every introspection check in that call: verify signs
\* and simulates only when the introspection succeeded, and settle signs only
\* when verify answered isValid = true.
C39_SignsOnlyAfterIntrospection ==
  \A c \in DOMAIN calls :
    /\ calls[c].signed # <<>> => PassesIntrospection(c)
    /\ (\E i \in DOMAIN calls[c].signed : calls[c].signed[i] = "settle")
         => /\ calls[c].verifyResponse # <<>> /\ calls[c].verifyResponse[1].isValid
            /\ calls[c].signed = <<"verify", "settle">>

\* One call signed in verify and in settle; another, whose transaction fails
\* the introspection, returned and nothing of it was signed
C39_Witness ==
  \E c, d \in DOMAIN calls :
    /\ calls[c].signed = <<"verify", "settle">> /\ PassesIntrospection(c)
    /\ calls[d].pc = "done" /\ ~PassesIntrospection(d) /\ calls[d].signed = <<>>

\* C10: within one call of settle the signed transaction is sent at most
\* once, whatever the outcome of the confirmation: confirmed, block height
\* exceeded, timed out, or a failed subscription followed by polling.
C10_SentAtMostOnce ==
  \A c \in DOMAIN calls : calls[c].sendCount <= 1

C10_Witness ==
  \E c \in DOMAIN calls :
    /\ calls[c].pc = "done"
    /\ calls[c].polls >= 1
    /\ calls[c].sendCount = 1

\* C11: a call of settle is never still waiting more than 60 seconds after
\* sendSignedTransaction returned: by then it has returned, with the timeout
\* reason if the transaction was neither confirmed nor expired.
C11_LatencyBounded ==
  \A c \in DOMAIN calls :
    (calls[c].measured /\ calls[c].sendReturned)
      => calls[c].sinceSend <= SubscriptionTimeout

\* A measured call has returned with this errorReason
ReturnedWith(c, errorReason) ==
  /\ calls[c].measured
  /\ calls[c].pc = "done"
  /\ calls[c].result[1].errorReason = errorReason

ConfirmationStarted(c) ==
  calls[c].subscription # "none" \/ calls[c].polled \/ calls[c].polls > 0

\* sendSignedTransaction was called and threw
SendThrew(c) == calls[c].sendCount > 0 /\ ~calls[c].sendReturned

\* C19: within settle no confirmation, by subscription or by polling, starts
\* before sendSignedTransaction has returned, and when sendSignedTransaction
\* throws no confirmation is attempted: settle returns
\* unexpected_settle_error.
C19_SendPrecedesConfirm ==
  \A c \in DOMAIN calls :
    /\ ConfirmationStarted(c) => calls[c].sendCount = 1 /\ calls[c].sendReturned
    /\ calls[c].pc \in {"subscription", "polling"} => calls[c].sendReturned
    /\ SendThrew(c)
         => /\ ~ConfirmationStarted(c)
            /\ calls[c].pc = "done"
            /\ ~calls[c].result[1].success
            /\ calls[c].result[1].errorReason = ErrUnexpectedSettle

C19_Witness ==
  \E c, d \in DOMAIN calls :
    /\ SendThrew(c) /\ calls[c].pc = "done"
    /\ calls[d].sendReturned /\ calls[d].polled /\ calls[d].pc = "done"

Returned(c) == calls[c].pc = "done"

\* The response carries no transaction
TransactionEmpty(c) == calls[c].result[1].transaction = ""

\* The response carries the signature of the call's transaction
TransactionIsSignature(c) ==
  /\ ~TransactionEmpty(c)
  /\ calls[c].result[1].transaction
       = GetSignatureFromTransaction(calls[c].payload.transaction)

\* C21 as stated: the transaction field of the response is the empty string
\* whenever the transaction was not submitted, and the signature on success
\* and on every failure after submission.
C21_EmptyUnlessSubmitted ==
  \A c \in DOMAIN calls :
    Returned(c)
      => IF calls[c].sendReturned THEN TransactionIsSignature(c)
         ELSE TransactionEmpty(c)

\* C21 amended: the transaction field is the empty string when verify
\* rejected the payload, and the signature of the signed transaction in every
\* response after that: on success, on every failure of the confirmation and
\* when the submission itself failed.
C21_EmptyUnlessSigned ==
  \A c \in DOMAIN calls :
    Returned(c)
      => IF VerifiedInvalid(c) THEN TransactionEmpty(c)
         ELSE TransactionIsSignature(c)

C21_Witness ==
  \E c \in DOMAIN calls :
    /\ Returned(c)
    /\ SendThrew(c)
    /\ calls[c].payload.transaction \notin chain.pending
    /\ TransactionIsSignature(c)

\* C22: settle does not throw: every exception raised while signing,
\* submitting or confirming the transaction ends in a response with
\* success = false and errorReason unexpected_settle_error.
C22_SettleDoesNotThrow ==
  \A c \in DOMAIN calls : calls[c].pc # "threw"

\* C24: every invalidReason that verify answers with and every errorReason
\* that settle returns, on the subscription path and on the polling path, is
\* one of ErrorReasons.
C24_ReasonsClosed ==
  \A c \in DOMAIN calls :
    /\ VerifiedInvalid(c) => calls[c].verifyResponse[1].invalidReason \in ErrorReasons
    /\ (Returned(c) /\ ~calls[c].result[1].success)
         => calls[c].result[1].errorReason \in ErrorReasons

====
